---------------------------- MODULE Spec2Model ----------------------------
(***************************************************************************)
(* A model of the ultra-utils package: the command-line dispatcher         *)
(* (bin/cli.js), the loading of the package entry point (src/index.js and  *)
(* the CommonJS entry generated by scripts/build-cjs.js), and the library  *)
(* functions, each applied to inputs drawn from bounded sets.              *)
(*                                                                         *)
(* A JavaScript string is modelled by the sequence of its code units, each *)
(* code unit a one-character TLA+ string.  Names that the program only     *)
(* compares for identity (function names, category names, command-line     *)
(* words) are TLA+ strings; CodeUnits gives the code units of the          *)
(* command-line words the program looks into.                              *)
(***************************************************************************)
EXTENDS Integers, Sequences, FiniteSets, TLC

VARIABLES
    pc,             \* position of the running process or call
    argv,           \* process.argv.slice(2) of the CLI process
    stdout,         \* kinds of the messages printed so far, in order
    exitCode,       \* exit status of the CLI process, "none" while it runs
    invoked,        \* the call executeFunction made: [fn, args, outcome]
    entry,          \* which entry module is being loaded: "esm" or "cjs"
    loadPc,         \* number of export statements of the entry executed
    moduleExports,  \* names bound in the entry module's exports
    op,             \* library function being applied
    args,           \* its arguments
    ret,            \* its result
    i,              \* loop index of chunk and of shuffle
    chunks,         \* accumulator of chunk
    shuffled,       \* the copy shuffle works on
    swaps,          \* the swap steps shuffle has taken
    heap,           \* the mappings and arrays of the program, by address
    before,         \* the arguments of the call as they were when it was made
    env             \* what the operations outside the program do during the call

vars == <<pc, argv, stdout, exitCode, invoked, entry, loadPc, moduleExports,
          op, args, ret, i, chunks, shuffled, swaps, heap, before, env>>

cliVars == <<argv, stdout, exitCode, invoked>>
loadVars == <<entry, loadPc, moduleExports>>
libVars == <<op, args, ret>>
chunkVars == <<i, chunks, shuffled, swaps>>
heapVars == <<heap, before>>

None == [t |-> "undefined"]

(***************************************************************************)
(* Bounds of the model.                                                    *)
(***************************************************************************)
MaxArgs == 2

\* Sequences over S of length at most n.
SeqsUpTo(S, n) == UNION {[1..k -> S] : k \in 0..n}

Max(a, b) == IF a >= b THEN a ELSE b
Min(a, b) == IF a <= b THEN a ELSE b

\* the index Array.prototype.slice makes of an argument
RelativeIndex(n, len) == IF n < 0 THEN Max(len + n, 0) ELSE Min(n, len)

\* arr.slice(start, end) and text.slice(start, end)
slice(arr, start, end) ==
    SubSeq(arr, RelativeIndex(start, Len(arr)) + 1, RelativeIndex(end, Len(arr)))

(***************************************************************************)
(* bin/cli.js: the categories table and the registry it imports.           *)
(***************************************************************************)
categories ==
    [string |-> {"slugify", "toTitleCase", "truncate", "camelCase", "pascalCase",
                 "snakeCase", "kebabCase", "capitalize", "reverse", "isPalindrome",
                 "wordCount", "padStart", "padEnd", "repeat", "escapeHtml",
                 "unescapeHtml", "base64Encode", "base64Decode", "randomString",
                 "similarity", "levenshteinDistance", "removeAccents",
                 "extractNumbers", "extractEmails", "mask", "swapCase", "isAnagram",
                 "longestCommonSubstring", "compress", "decompress"},
     date |-> {"formatDate", "timeAgo", "addDays", "addMonths", "addYears",
               "subtractDays", "subtractMonths", "subtractYears", "diffInDays",
               "diffInMonths", "diffInYears", "isToday", "isYesterday", "isTomorrow",
               "isLeapYear", "startOfDay", "endOfDay", "startOfWeek", "endOfWeek",
               "startOfMonth", "endOfMonth", "startOfYear", "endOfYear",
               "daysInMonth", "dayOfYear", "weekOfYear"},
     array |-> {"unique", "chunk", "shuffle", "flatten", "flattenDeep",
                "intersection", "difference", "union", "compact", "take",
                "takeLast", "drop", "dropLast", "zip", "groupBy", "countBy",
                "partition", "findIndex", "findLastIndex", "sample", "sampleSize",
                "sortBy", "fill", "range", "transpose", "max", "min", "sum", "mean",
                "median"},
     object |-> {"deepMerge", "clone", "get", "set", "has", "omit", "pick", "keys",
                 "values", "flatten", "unflatten", "invert", "mapValues", "mapKeys",
                 "isEqual", "isEmpty", "size", "fromPairs", "toPairs"},
     number |-> {"commaNumber", "randomInt", "bytes", "randomFloat", "round", "ceil",
                 "floor", "clamp", "inRange", "toPercent", "fromPercent",
                 "toCurrency", "factorial", "gcd", "lcm", "isPrime", "isEven",
                 "isOdd", "toRadians", "toDegrees", "distance", "lerp", "mapRange",
                 "fibonacci", "toOrdinal"},
     crypto |-> {"md5", "sha1", "sha256", "sha512", "hmacSha256", "hmacSha512",
                 "randomHex", "randomToken", "hashPassword", "verifyPassword",
                 "xorCipher", "hash", "hmac"},
     color |-> {"hexToRgb", "rgbToHex", "rgbToHsl", "hslToRgb", "randomColor",
                "lighten", "darken", "saturate", "desaturate", "complement",
                "generatePalette", "contrastRatio", "isLight", "isDark", "mix"},
     url |-> {"parseUrl", "buildUrl", "getQueryParams", "buildQueryString",
              "addQueryParams", "removeQueryParams", "isValidUrl", "getDomain",
              "getSubdomain", "getRootDomain", "normalizeUrl", "joinPaths",
              "encodeUrl", "decodeUrl", "extractUrls"},
     fs |-> {"exists", "readFile", "writeFile", "readJson", "writeJson", "getStats",
             "getFileSize", "listDir", "createDir", "deleteFile", "copyFile",
             "getExtension", "getBasename", "getDirname", "resolvePath", "joinPath",
             "findFiles"},
     validate |-> {"isEmail", "isUrl", "isEmpty"},
     misc |-> {"uuid", "copyToClipboard", "colorize"}]

CategoryNames == DOMAIN categories

\* Object.values(categories).flatMap(cat => cat.functions)
allFunctions == UNION {categories[c] : c \in CategoryNames}

\* The default export of src/index.js, which bin/cli.js imports as `utils`.
utils ==
    {"slugify", "toTitleCase", "truncate", "formatDate", "timeAgo", "isEmail",
     "isUrl", "isEmpty", "commaNumber", "randomInt", "bytes", "unique", "chunk",
     "shuffle", "deepMerge", "clone", "uuid", "copyToClipboard", "colorize"}

\* Properties every object inherits from Object.prototype: utils[name] is
\* truthy for them although utils has no such own property.
ObjectPrototype ==
    {"constructor", "toString", "valueOf", "hasOwnProperty", "isPrototypeOf",
     "propertyIsEnumerable", "toLocaleString"}

(***************************************************************************)
(* The JavaScript built-ins bin/cli.js applies to an argument: JSON.parse, *)
(* isNaN (Number) and parseFloat, on the code units of the text.  The      *)
(* grammar covers decimal numbers without exponent, strings without        *)
(* escapes, arrays and the literals true, false, null: what texts over     *)
(* the code units of ArgTexts can spell.                                   *)
(***************************************************************************)
Digits == <<"0", "1", "2", "3", "4", "5", "6", "7", "8", "9">>

IsDigit(c) == \E d \in 1..Len(Digits) : Digits[d] = c

DigitVal(c) == (CHOOSE d \in 1..Len(Digits) : Digits[d] = c) - 1

IsSpace(c) == c \in {" ", "\t", "\n", "\r"}

\* s[p] when p is inside s, and the empty string past its end
At(s, p) == IF p >= 1 /\ p <= Len(s) THEN s[p] ELSE ""

RECURSIVE SkipSpace(_, _)
SkipSpace(s, p) == IF IsSpace(At(s, p)) THEN SkipSpace(s, p + 1) ELSE p

RECURSIVE SkipDigits(_, _)
SkipDigits(s, p) == IF IsDigit(At(s, p)) THEN SkipDigits(s, p + 1) ELSE p

\* the value of the digits s[p..q-1] read after the digits already worth acc
RECURSIVE DigitsValue(_, _, _, _)
DigitsValue(s, p, q, acc) ==
    IF p >= q THEN acc ELSE DigitsValue(s, p + 1, q, acc * 10 + DigitVal(s[p]))

NaN == [t |-> "NaN"]

\* The number (-1)^neg * mant / 10^scale, without trailing fraction zeros.
RECURSIVE MkNumber(_, _, _)
MkNumber(neg, mant, scale) ==
    IF scale > 0 /\ mant % 10 = 0
    THEN MkNumber(neg, mant \div 10, scale - 1)
    ELSE [t |-> "number", neg |-> neg, mant |-> mant, scale |-> scale]

MkString(s) == [t |-> "string", s |-> s]

Failed == [ok |-> FALSE, v |-> None, next |-> 0]

\* JSON number at p: -? (0 | [1-9][0-9]*) (. [0-9]+)?
JsonNumber(s, p) ==
    LET neg == At(s, p) = "-"
        a == IF neg THEN p + 1 ELSE p
        b == SkipDigits(s, a)
        hasFrac == At(s, b) = "."
        c == IF hasFrac THEN SkipDigits(s, b + 1) ELSE b
    IN  IF b = a \/ (At(s, a) = "0" /\ b > a + 1) THEN Failed
        ELSE IF hasFrac /\ c = b + 1 THEN Failed
        ELSE [ok |-> TRUE,
              v |-> MkNumber(neg, DigitsValue(s, b + 1, c, DigitsValue(s, a, b, 0)),
                             IF hasFrac THEN c - (b + 1) ELSE 0),
              next |-> c]

\* index of the quote closing the string opened before p, 0 when there is none
RECURSIVE ClosingQuote(_, _)
ClosingQuote(s, p) ==
    IF p > Len(s) \/ s[p] \in {"\\", "\n", "\t", "\r"} THEN 0
    ELSE IF s[p] = "\"" THEN p
    ELSE ClosingQuote(s, p + 1)

JsonString(s, p) ==
    LET q == ClosingQuote(s, p + 1)
    IN  IF q = 0 THEN Failed
        ELSE [ok |-> TRUE, v |-> MkString(SubSeq(s, p + 1, q - 1)), next |-> q + 1]

JsonLiteral(s, p, word, v) ==
    IF SubSeq(s, p, Min(Len(s), p + Len(word) - 1)) = word
    THEN [ok |-> TRUE, v |-> v, next |-> p + Len(word)]
    ELSE Failed

RECURSIVE JsonValue(_, _)
RECURSIVE JsonElements(_, _, _)
\* the elements of an array after "[" or ",": a value, then "," or "]"
JsonElements(s, p, acc) ==
    LET e == JsonValue(s, SkipSpace(s, p))
        q == SkipSpace(s, e.next)
    IN  IF ~e.ok THEN Failed
        ELSE IF At(s, q) = "," THEN JsonElements(s, q + 1, Append(acc, e.v))
        ELSE IF At(s, q) = "]"
             THEN [ok |-> TRUE, v |-> [t |-> "array", elems |-> Append(acc, e.v)],
                   next |-> q + 1]
        ELSE Failed

JsonValue(s, p) ==
    LET c == At(s, p)
    IN  IF c = "\"" THEN JsonString(s, p)
        ELSE IF c = "[" THEN
            IF At(s, SkipSpace(s, p + 1)) = "]"
            THEN [ok |-> TRUE, v |-> [t |-> "array", elems |-> <<>>],
                  next |-> SkipSpace(s, p + 1) + 1]
            ELSE JsonElements(s, p + 1, <<>>)
        ELSE IF c = "t" THEN JsonLiteral(s, p, <<"t", "r", "u", "e">>,
                                         [t |-> "boolean", b |-> TRUE])
        ELSE IF c = "f" THEN JsonLiteral(s, p, <<"f", "a", "l", "s", "e">>,
                                         [t |-> "boolean", b |-> FALSE])
        ELSE IF c = "n" THEN JsonLiteral(s, p, <<"n", "u", "l", "l">>, [t |-> "null"])
        ELSE IF c = "-" \/ IsDigit(c) THEN JsonNumber(s, p)
        ELSE Failed

\* JSON.parse(text): [ok |-> FALSE] stands for the SyntaxError it throws
JSONparse(s) ==
    LET r == JsonValue(s, SkipSpace(s, 1))
    IN  IF r.ok /\ SkipSpace(s, r.next) = Len(s) + 1 THEN r ELSE Failed

\* The longest prefix of s from p matching StrDecimalLiteral (without
\* exponent and Infinity): [+-]? (digits (. digits?)? | . digits)
DecimalPrefix(s, p) ==
    LET signed == At(s, p) \in {"+", "-"}
        a == IF signed THEN p + 1 ELSE p
        b == SkipDigits(s, a)
        dot == At(s, b) = "."
        c == IF dot THEN SkipDigits(s, b + 1) ELSE b
    IN  IF b = a /\ (~dot \/ c = b + 1) THEN Failed
        ELSE [ok |-> TRUE,
              v |-> MkNumber(At(s, p) = "-",
                             DigitsValue(s, b + 1, c, DigitsValue(s, a, b, 0)),
                             IF dot THEN c - (b + 1) ELSE 0),
              next |-> c]

\* parseFloat(text): leading white space skipped, then the longest prefix
parseFloat(s) ==
    LET r == DecimalPrefix(s, SkipSpace(s, 1))
    IN  IF r.ok THEN r.v ELSE NaN

\* Number(text), which isNaN(text) applies: the whole trimmed text must be a
\* numeric literal, and the empty text is 0
ToNumber(s) ==
    LET p == SkipSpace(s, 1)
        r == DecimalPrefix(s, p)
    IN  IF p = Len(s) + 1 THEN MkNumber(FALSE, 0, 0)
        ELSE IF r.ok /\ SkipSpace(s, r.next) = Len(s) + 1 THEN r.v
        ELSE NaN

isNaN(v) == v = NaN

(***************************************************************************)
(* The command lines the model runs.                                       *)
(***************************************************************************)
\* code units of the argument texts
CodeUnits ==
    ("1" :> <<"1">>) @@
    ("01" :> <<"0", "1">>) @@
    (".5" :> <<".", "5">>) @@
    ("-1.50" :> <<"-", "1", ".", "5", "0">>) @@
    ("1." :> <<"1", ".">>) @@
    ("1a" :> <<"1", "a">>) @@
    ("a" :> <<"a">>) @@
    ("" :> <<>>) @@
    ("\"a\"" :> <<"\"", "a", "\"">>) @@
    ("[1, \"a\"]" :> <<"[", "1", ",", " ", "\"", "a", "\"", "]">>) @@
    ("true" :> <<"t", "r", "u", "e">>)

ArgTexts == DOMAIN CodeUnits

\* function names invoked with arguments
InvokedNames == {"slugify", "truncate", "camelCase", "nosuchfn", "toString"}

Argvs ==
    {<<>>, <<"help">>, <<"help", "">>, <<"help", "string">>, <<"help", "nosuchcat">>,
     <<"list">>}
    \cup {<<fn>> : fn \in allFunctions \cup utils}
    \cup {<<fn>> \o a : fn \in InvokedNames, a \in SeqsUpTo(ArgTexts, MaxArgs)}

(***************************************************************************)
(* bin/cli.js                                                              *)
(***************************************************************************)
NoCall == [fn |-> "", args |-> <<>>, outcome |-> "none"]

\* the conversion without its numeric branch: what is not JSON stays a string
CoerceArgJsonOnly(arg) ==
    LET s == CodeUnits[arg]
        j == JSONparse(s)
    IN  IF j.ok THEN j.v ELSE MkString(s)

\* args.map(arg => ...) of executeFunction, for one argument
CoerceArg(arg) ==
    LET s == CodeUnits[arg]
        j == JSONparse(s)
    IN  IF j.ok THEN j.v
        ELSE IF ~isNaN(ToNumber(s)) /\ ~isNaN(parseFloat(s)) THEN parseFloat(s)
        ELSE MkString(s)

parsedArgs(rest) == [k \in 1..Len(rest) |-> CoerceArg(rest[k])]

\* if (!utils[functionName])
Registered(functionName) == functionName \in utils \cup ObjectPrototype

\* executeFunction(functionName, args); `outcome` is what the called
\* function does with the arguments: it returns or it throws
executeFunction(functionName, rest, outcome) ==
    IF ~Registered(functionName)
    THEN /\ stdout' = <<"notFound">>
                      \o (IF functionName \in allFunctions THEN <<"didYouMean">>
                          ELSE <<>>)
                      \o <<"useList">>
         /\ invoked' = NoCall
    ELSE /\ invoked' = [fn |-> functionName, args |-> parsedArgs(rest),
                        outcome |-> outcome]
         /\ stdout' = IF outcome = "returns" THEN <<"resultFor", "result">>
                      ELSE <<"errorExecuting", "errorMessage">>
                           \o (IF functionName \in allFunctions
                               THEN <<"categoryHint">> ELSE <<>>)

showHelp == stdout' = <<"help">>

showCategoryHelp(categoryName) ==
    stdout' = IF categoryName \in CategoryNames THEN <<"categoryHelp">>
              ELSE <<"unknownCategory", "availableCategories">>

listAllFunctions == stdout' = <<"allFunctions">>

\* The main CLI logic: one run of the script body.
Main ==
    /\ pc = "main"
    /\ \/ /\ Len(argv) = 0
          /\ showHelp
          /\ invoked' = NoCall
       \/ /\ Len(argv) > 0 /\ argv[1] = "help"
          /\ IF Len(argv) >= 2 /\ argv[2] # ""
             THEN showCategoryHelp(argv[2]) ELSE showHelp
          /\ invoked' = NoCall
       \/ /\ Len(argv) > 0 /\ argv[1] = "list"
          /\ listAllFunctions
          /\ invoked' = NoCall
       \/ /\ Len(argv) > 0 /\ argv[1] \notin {"help", "list"}
          /\ \E outcome \in {"returns", "throws"} :
                executeFunction(argv[1], Tail(argv), outcome)
    /\ pc' = "exiting"
    /\ UNCHANGED <<argv, exitCode>>
    /\ UNCHANGED <<loadVars, libVars, chunkVars, heapVars, env>>

\* The script sets no exit code and never calls process.exit: the process
\* ends when the script body has run, with status 0.
Exit ==
    /\ pc = "exiting"
    /\ exitCode' = 0
    /\ pc' = "exited"
    /\ UNCHANGED <<argv, stdout, invoked>>
    /\ UNCHANGED <<loadVars, libVars, chunkVars, heapVars, env>>

(***************************************************************************)
(* Loading the package entry point.  required gives the functions each    *)
(* module of src/ exports, under the name the generated CommonJS entry     *)
(* binds the module to.                                                    *)
(***************************************************************************)
required ==
    [stringUtils |-> {"slugify", "toTitleCase", "truncate", "camelCase",
                      "pascalCase", "snakeCase", "kebabCase", "capitalize",
                      "reverse", "isPalindrome", "wordCount", "words",
                      "pad", "padStart", "padEnd", "repeat", "stripHtml",
                      "escapeHtml", "unescapeHtml", "toBase64",
                      "fromBase64", "randomString", "startsWithIgnoreCase",
                      "endsWithIgnoreCase", "includesIgnoreCase",
                      "replaceAll", "insert", "remove", "countOccurrences",
                      "levenshteinDistance", "similarity"},
     dateUtils |-> {"formatDate", "timeAgo", "addDays", "addMonths",
                    "addYears", "subDays", "subMonths", "subYears",
                    "diffInDays", "diffInHours", "diffInMinutes", "isToday",
                    "isYesterday", "isTomorrow", "isLeapYear", "startOfDay",
                    "endOfDay", "startOfWeek", "endOfWeek", "startOfMonth",
                    "endOfMonth", "startOfYear", "endOfYear", "daysInMonth",
                    "dayOfYear", "weekOfYear", "parseDate", "isBetween",
                    "maxDate", "minDate", "getTimezoneOffset",
                    "toISOString", "toUnixTimestamp", "fromUnixTimestamp"},
     validateUtils |-> {"isEmail", "isUrl", "isEmpty"},
     numberUtils |-> {"commaNumber", "randomInt", "bytes", "randomFloat",
                      "round", "clamp", "inRange", "toPercent",
                      "fromPercent", "toCurrency", "factorial", "gcd",
                      "lcm", "isPrime", "isEven", "isOdd", "toRadians",
                      "toDegrees", "distance", "lerp", "mapRange",
                      "fibonacci", "ordinal"},
     arrayUtils |-> {"unique", "chunk", "shuffle", "flatten", "flattenDeep",
                     "intersection", "difference", "union", "compact",
                     "take", "takeLast", "drop", "dropLast", "zip",
                     "groupBy", "countBy", "partition", "findIndex",
                     "findLastIndex", "sample", "sampleSize", "sortBy",
                     "fill", "range", "transpose", "max", "min", "sum",
                     "mean", "median"},
     objectUtils |-> {"deepMerge", "clone", "get", "set", "has", "omit",
                      "pick", "keys", "values", "flatten", "unflatten",
                      "invert", "mapValues", "mapKeys", "isEqual",
                      "isEmpty", "size", "fromPairs", "toPairs"},
     miscUtils |-> {"uuid", "copyToClipboard", "colorize"},
     fsUtils |-> {"exists", "readFile", "writeFile", "readJson",
                  "writeJson", "getStats", "getFileSize", "listDir",
                  "createDir", "deleteFile", "copyFile", "getExtension",
                  "getBasename", "getDirname", "resolvePath", "joinPath",
                  "findFiles"},
     cryptoUtils |-> {"md5", "sha1", "sha256", "sha512", "hmacSha256",
                      "hmacSha512", "randomHex", "randomToken",
                      "hashPassword", "verifyPassword", "xorCipher", "hash",
                      "hmac"},
     colorUtils |-> {"hexToRgb", "rgbToHex", "rgbToHsl", "hslToRgb",
                     "randomColor", "lighten", "darken", "saturate",
                     "desaturate", "complement", "generatePalette",
                     "contrastRatio", "isLight", "isDark", "mix"},
     urlUtils |-> {"parseUrl", "buildUrl", "getQueryParams",
                   "buildQueryString", "addQueryParams",
                   "removeQueryParams", "isValidUrl", "getDomain",
                   "getSubdomain", "getRootDomain", "normalizeUrl",
                   "joinPaths", "encodeUrl", "decodeUrl", "extractUrls"}]

\* the order in which the generated entry requires and binds the modules
Bundles ==
    <<"stringUtils", "dateUtils", "validateUtils", "numberUtils", "arrayUtils",
      "objectUtils", "miscUtils", "fsUtils", "cryptoUtils", "colorUtils",
      "urlUtils">>

BundleNames == {Bundles[k] : k \in 1..Len(Bundles)}

\* const defaultExport = { ...stringUtils, ..., ...miscUtils }
defaultExport == UNION {required[b] : b \in BundleNames}

\* The statements of the generated CommonJS entry that act on module.exports:
\* Object.assign(module.exports, m) for each module, module.exports.m = m for
\* each module, and last module.exports = defaultExport.
indexCjsContent ==
    [k \in 1..Len(Bundles) |-> [kind |-> "assign", bundle |-> Bundles[k]]]
    \o [k \in 1..Len(Bundles) |-> [kind |-> "bind", bundle |-> Bundles[k]]]
    \o <<[kind |-> "replace", bundle |-> ""]>>

\* The export statements of src/index.js: seven `export { ... } from` and
\* the default export.
indexJsContent ==
    <<[kind |-> "exportFrom", names |-> {"slugify", "toTitleCase", "truncate"}],
      [kind |-> "exportFrom", names |-> {"formatDate", "timeAgo"}],
      [kind |-> "exportFrom", names |-> {"isEmail", "isUrl", "isEmpty"}],
      [kind |-> "exportFrom", names |-> {"commaNumber", "randomInt", "bytes"}],
      [kind |-> "exportFrom", names |-> {"unique", "chunk", "shuffle"}],
      [kind |-> "exportFrom", names |-> {"deepMerge", "clone"}],
      [kind |-> "exportFrom", names |-> {"uuid", "copyToClipboard", "colorize"}],
      [kind |-> "exportDefault", names |-> {"default"}]>>

EntryContent(e) == IF e = "cjs" THEN indexCjsContent ELSE indexJsContent

NextStatement == EntryContent(entry)[loadPc + 1]

LoadStep(kind) ==
    /\ pc = "loading"
    /\ loadPc < Len(EntryContent(entry))
    /\ NextStatement.kind = kind
    /\ loadPc' = loadPc + 1
    /\ UNCHANGED <<pc, entry>>
    /\ UNCHANGED <<cliVars, libVars, chunkVars, heapVars, env>>

\* Object.assign(module.exports, stringUtils); ...
ObjectAssign ==
    /\ LoadStep("assign")
    /\ moduleExports' = moduleExports \cup required[NextStatement.bundle]

\* module.exports.stringUtils = stringUtils; ...
BindBundle ==
    /\ LoadStep("bind")
    /\ moduleExports' = moduleExports \cup {NextStatement.bundle}

\* module.exports = defaultExport;
ReplaceExports ==
    /\ LoadStep("replace")
    /\ moduleExports' = defaultExport

\* export { slugify, toTitleCase, truncate } from './string.js'; ...
ExportFrom ==
    /\ LoadStep("exportFrom")
    /\ moduleExports' = moduleExports \cup NextStatement.names

\* export default { ... };
ExportDefault ==
    /\ LoadStep("exportDefault")
    /\ moduleExports' = moduleExports \cup NextStatement.names

\* the entry module has finished loading
Loaded ==
    /\ pc = "loading"
    /\ loadPc = Len(EntryContent(entry))
    /\ pc' = "loaded"
    /\ UNCHANGED <<entry, loadPc, moduleExports>>
    /\ UNCHANGED <<cliVars, libVars, chunkVars, heapVars, env>>

(***************************************************************************)
(* The processes of the package: a run of the CLI, or a program importing  *)
(* the entry point.                                                        *)
(***************************************************************************)
LibIdle == op = "none" /\ args = <<>> /\ ret = None
ChunkIdle == i = 0 /\ chunks = <<>> /\ shuffled = <<>> /\ swaps = 0
HeapIdle == heap = <<>> /\ before = <<>>
EnvIdle == env = <<>>
CliIdle == argv = <<>> /\ stdout = <<>> /\ exitCode = "none" /\ invoked = NoCall
LoadIdle == entry = "none" /\ loadPc = 0 /\ moduleExports = {}

InitCli ==
    \/ /\ pc = "main"
       /\ argv \in Argvs
       /\ stdout = <<>> /\ exitCode = "none" /\ invoked = NoCall
       /\ LoadIdle /\ LibIdle /\ ChunkIdle /\ HeapIdle /\ EnvIdle
    \/ /\ pc = "loading"
       /\ entry \in {"esm", "cjs"}
       /\ loadPc = 0 /\ moduleExports = {}
       /\ CliIdle /\ LibIdle /\ ChunkIdle /\ HeapIdle /\ EnvIdle

NextCli ==
    \/ Main
    \/ Exit
    \/ ObjectAssign
    \/ BindBundle
    \/ ReplaceExports
    \/ ExportFrom
    \/ ExportDefault
    \/ Loaded

SpecCli == InitCli /\ [][NextCli]_vars

(***************************************************************************)
(* Claims about the CLI and the entry point, checked under SpecCli.        *)
(***************************************************************************)
\* the run asked for a function (not help, not list)
AskedFunction == Len(argv) > 0 /\ argv[1] \notin {"help", "list"}

Printed(kind) == \E k \in 1..Len(stdout) : stdout[k] = kind

\* C1: when the CLI is invoked with a function name that is not in the
\* registry, or the invoked function throws, the process prints an error
\* message and terminates with a non-zero exit status.
C1_ErrorExitsNonZero ==
    (/\ pc = "exited"
     /\ AskedFunction
     /\ (argv[1] \notin utils \/ invoked.outcome = "throws"))
    => /\ Printed("notFound") \/ Printed("errorExecuting")
       /\ exitCode # 0

\* C2: every function name the CLI advertises in its categories table is
\* found by executeFunction in the registry it imports: invoking the CLI
\* with an advertised name calls the function and never prints "Function
\* not found".
C2_AdvertisedIsFound ==
    (pc = "exited" /\ AskedFunction /\ argv[1] \in allFunctions)
    => /\ invoked.fn = argv[1]
       /\ ~Printed("notFound")

\* What JavaScript makes of each argument text of the model, written down
\* text by text: whether JSON.parse accepts it and the value it gives, and
\* otherwise whether the text is numeric and the number it denotes.
ValidJson == {"1", "-1.50", "\"a\"", "[1, \"a\"]", "true"}

JsonOf ==
    ("1" :> [t |-> "number", neg |-> FALSE, mant |-> 1, scale |-> 0]) @@
    ("-1.50" :> [t |-> "number", neg |-> TRUE, mant |-> 15, scale |-> 1]) @@
    ("\"a\"" :> [t |-> "string", s |-> <<"a">>]) @@
    ("[1, \"a\"]" :>
        [t |-> "array",
         elems |-> <<[t |-> "number", neg |-> FALSE, mant |-> 1, scale |-> 0],
                     [t |-> "string", s |-> <<"a">>]>>]) @@
    ("true" :> [t |-> "boolean", b |-> TRUE])

NumericText == {"01", ".5", "1."}

NumberOf ==
    ("01" :> [t |-> "number", neg |-> FALSE, mant |-> 1, scale |-> 0]) @@
    (".5" :> [t |-> "number", neg |-> FALSE, mant |-> 5, scale |-> 1]) @@
    ("1." :> [t |-> "number", neg |-> FALSE, mant |-> 1, scale |-> 0])

\* C5: the CLI converts each argument after the function name on its own:
\* valid JSON becomes the parsed value, otherwise numeric text becomes a
\* number, otherwise the text is passed unchanged as a string; the function
\* receives as many arguments as the command line gave, in the same order.
C5_ArgumentsCoerced ==
    (pc = "exited" /\ invoked # NoCall)
    => /\ Len(invoked.args) = Len(argv) - 1
       /\ \A k \in 1..Len(invoked.args) :
            LET text == argv[k + 1]
            IN  invoked.args[k] =
                    IF text \in ValidJson THEN JsonOf[text]
                    ELSE IF text \in NumericText THEN NumberOf[text]
                    ELSE [t |-> "string", s |-> CodeUnits[text]]

\* a call with a JSON argument, a numeric one and a plain one has been made
C5_Witness ==
    /\ pc = "exited"
    /\ invoked.fn = "slugify"
    /\ \E a \in ValidJson, b \in NumericText :
          argv \in {<<"slugify", a, b>>, <<"slugify", "1a", a>>}

\* C6: once the entry module has finished loading, every category bundle
\* (stringUtils, dateUtils, ..., urlUtils) is bound in its exports.
C6_BundlesExported ==
    pc = "loaded" => BundleNames \subseteq moduleExports

(***************************************************************************)
(* JavaScript values of the object utilities.  A value is a primitive      *)
(* (a number v), a plain mapping or an array; a mapping or an array holds  *)
(* its own properties as the keys ks, in the order `for...in` and          *)
(* Object.keys enumerate them, and their values vs.  A key is the sequence *)
(* of its code units.  The length of an array is one more than its largest *)
(* index.                                                                  *)
(***************************************************************************)
Undefined == [t |-> "undefined", v |-> 0, ks |-> <<>>, vs |-> <<>>]
Prim(n) == [t |-> "prim", v |-> n, ks |-> <<>>, vs |-> <<>>]
Obj(ks, vs) == [t |-> "obj", v |-> 0, ks |-> ks, vs |-> vs]
Arr(ks, vs) == [t |-> "arr", v |-> 0, ks |-> ks, vs |-> vs]

EmptyObj == Obj(<<>>, <<>>)
EmptyArr == Arr(<<>>, <<>>)

\* typeof x === 'object' (null is not among the values of the model)
IsObjectType(x) == x.t \in {"obj", "arr"}

\* Array.isArray(x)
IsArray(x) == x.t = "arr"

\* the value is truthy: a mapping, an array or a number other than 0
Truthy(x) == IsObjectType(x) \/ (x.t = "prim" /\ x.v # 0)

\* a canonical array index: "0", or digits not starting with "0"
IsArrayIndex(k) ==
    /\ Len(k) > 0
    /\ \A p \in 1..Len(k) : IsDigit(k[p])
    /\ (Len(k) = 1 \/ k[1] # "0")

IndexValue(k) == DigitsValue(k, 1, Len(k) + 1, 0)

\* String(n) for an integer n >= 0
RECURSIVE IndexKey(_)
IndexKey(n) ==
    IF n < 10 THEN <<Digits[n + 1]>>
    ELSE IndexKey(n \div 10) \o <<Digits[(n % 10) + 1]>>

\* key in x, for the own properties of x
HasProp(x, k) == \E p \in 1..Len(x.ks) : x.ks[p] = k

\* x[k]
GetProp(x, k) ==
    IF HasProp(x, k) THEN x.vs[CHOOSE p \in 1..Len(x.ks) : x.ks[p] = k]
    ELSE Undefined

\* number of the keys of x that enumerate before a new key k: array indices
\* enumerate first, in ascending order, then the other keys as inserted
KeysBefore(x, k) ==
    IF IsArrayIndex(k)
    THEN Cardinality({p \in 1..Len(x.ks) :
                        IsArrayIndex(x.ks[p]) /\ IndexValue(x.ks[p]) < IndexValue(k)})
    ELSE Len(x.ks)

InsertAt(s, p, e) == SubSeq(s, 1, p) \o <<e>> \o SubSeq(s, p + 1, Len(s))

\* x[k] = val, on a mapping or an array x; assigning to a property of a
\* primitive does nothing
SetProp(x, k, val) ==
    IF ~IsObjectType(x) THEN x
    ELSE IF HasProp(x, k)
    THEN [x EXCEPT !.vs[CHOOSE p \in 1..Len(x.ks) : x.ks[p] = k] = val]
    ELSE [x EXCEPT !.ks = InsertAt(x.ks, KeysBefore(x, k), k),
                   !.vs = InsertAt(x.vs, KeysBefore(x, k), val)]

\* x.length of an array
ArrayLength(x) ==
    LET idx == {IndexValue(x.ks[p]) : p \in {q \in 1..Len(x.ks) : IsArrayIndex(x.ks[q])}}
    IN  IF idx = {} THEN 0 ELSE 1 + CHOOSE m \in idx : \A n \in idx : n <= m

\* the array literal [e1, ..., en]
ArrayOf(elems) == Arr([k \in 1..Len(elems) |-> IndexKey(k - 1)], elems)

\* the elements of a dense array, in order
RECURSIVE ElementsFrom(_, _)
ElementsFrom(x, n) ==
    IF n >= ArrayLength(x) THEN <<>>
    ELSE <<GetProp(x, IndexKey(n))>> \o ElementsFrom(x, n + 1)

Elements(x) == ElementsFrom(x, 0)

\* deep equality of two values: the same kind of value, the same keys, and
\* deeply equal values under each key, whatever the order of the keys
RECURSIVE DeepEqual(_, _)
DeepEqual(x, y) ==
    /\ x.t = y.t
    /\ x.v = y.v
    /\ {x.ks[p] : p \in 1..Len(x.ks)} = {y.ks[p] : p \in 1..Len(y.ks)}
    /\ \A p \in 1..Len(x.ks) : DeepEqual(x.vs[p], GetProp(y, x.ks[p]))

(***************************************************************************)
(* String.prototype.split and replace, on code units.                      *)
(***************************************************************************)
\* s starts with sep at p
StartsAt(s, p, sep) ==
    p + Len(sep) - 1 <= Len(s) /\ SubSeq(s, p, p + Len(sep) - 1) = sep

\* s.split(sep) for a non-empty sep, from position p with the piece cur open
RECURSIVE SplitFrom(_, _, _, _)
SplitFrom(s, sep, p, cur) ==
    IF p > Len(s) THEN <<cur>>
    ELSE IF StartsAt(s, p, sep)
    THEN <<cur>> \o SplitFrom(s, sep, p + Len(sep), <<>>)
    ELSE SplitFrom(s, sep, p + 1, Append(cur, s[p]))

Split(s, sep) == SplitFrom(s, sep, 1, <<>>)

\* s.replace(/\./g, by)
RECURSIVE ReplaceDots(_, _)
ReplaceDots(s, by) ==
    IF s = <<>> THEN <<>>
    ELSE (IF Head(s) = "." THEN by ELSE <<Head(s)>>) \o ReplaceDots(Tail(s), by)

(***************************************************************************)
(* src/object.cjs: set, flatten, unflatten                                 *)
(***************************************************************************)
\* the loop of set from keys[n] on, and the final assignment
RECURSIVE SetPath(_, _, _, _)
SetPath(current, keys, n, value) ==
    IF n = Len(keys) THEN SetProp(current, keys[n], value)
    ELSE LET key == keys[n]
             child == IF ~HasProp(current, key)
                         \/ ~IsObjectType(GetProp(current, key))
                      THEN EmptyObj
                      ELSE GetProp(current, key)
         IN  SetProp(current, key, SetPath(child, keys, n + 1, value))

\* set(obj, path, value)
set(obj, path, value) == SetPath(obj, Split(path, <<".">>), 1, value)

\* recurse(current, prop) of flatten, acting on result
RECURSIVE Recurse(_, _, _, _)
RECURSIVE RecurseElements(_, _, _, _, _)
RECURSIVE RecurseProps(_, _, _, _, _)
\* for (let i = 0; i < current.length; i++) recurse(current[i], prop + separator + i)
RecurseElements(current, prop, separator, n, result) ==
    IF n >= ArrayLength(current) THEN result
    ELSE RecurseElements(current, prop, separator, n + 1,
            Recurse(GetProp(current, IndexKey(n)),
                    prop \o separator \o IndexKey(n), separator, result))

\* for (const p in current) recurse(current[p], prop ? prop + separator + p : p)
RecurseProps(current, prop, separator, n, result) ==
    IF n > Len(current.ks) THEN result
    ELSE RecurseProps(current, prop, separator, n + 1,
            Recurse(current.vs[n],
                    IF prop # <<>> THEN prop \o separator \o current.ks[n]
                    ELSE current.ks[n],
                    separator, result))

Recurse(current, prop, separator, result) ==
    IF ~IsObjectType(current) THEN SetProp(result, prop, current)
    ELSE IF IsArray(current)
    THEN LET r == RecurseElements(current, prop, separator, 0, result)
         IN  IF ArrayLength(current) = 0 THEN SetProp(r, prop, EmptyArr) ELSE r
    ELSE LET r == RecurseProps(current, prop, separator, 1, result)
         IN  IF Len(current.ks) = 0 /\ prop # <<>> THEN SetProp(r, prop, EmptyObj)
             ELSE r

\* flatten(obj, separator)
flatten(obj, separator) == Recurse(obj, <<>>, separator, EmptyObj)

\* the reduction creating a mapping at every segment, numeric or not
RECURSIVE ReduceCreateMappings(_, _, _)
ReduceCreateMappings(acc, keys, n) ==
    IF n > Len(keys) THEN acc
    ELSE LET k == keys[n]
             next == IF Truthy(GetProp(acc, k)) THEN GetProp(acc, k) ELSE EmptyObj
         IN  SetProp(acc, k, ReduceCreateMappings(next, keys, n + 1))

\* keys.reduce((acc, k, i) => acc[k] || (acc[k] = isNaN(Number(keys[i + 1]))
\* ? {} : []), result) from keys[n] on: acc with the containers created in it
RECURSIVE ReduceCreate(_, _, _)
ReduceCreate(acc, keys, n) ==
    IF n > Len(keys) THEN acc
    ELSE LET k == keys[n]
             created == IF n = Len(keys) \/ isNaN(ToNumber(keys[n + 1]))
                        THEN EmptyObj ELSE EmptyArr
             next == IF Truthy(GetProp(acc, k)) THEN GetProp(acc, k) ELSE created
         IN  SetProp(acc, k, ReduceCreate(next, keys, n + 1))

\* the body of the loop of unflatten for the n-th key of obj, and the rest
RECURSIVE UnflattenFrom(_, _, _, _)
UnflattenFrom(obj, separator, n, result) ==
    IF n > Len(obj.ks) THEN result
    ELSE LET key == obj.ks[n]
             created == ReduceCreate(result, Split(key, separator), 1)
         IN  UnflattenFrom(obj, separator, n + 1,
                set(created, ReplaceDots(key, separator), obj.vs[n]))

\* unflatten(obj, separator)
unflatten(obj, separator) == UnflattenFrom(obj, separator, 1, EmptyObj)

(***************************************************************************)
(* The mappings flatten and unflatten are applied to: mappings of at most  *)
(* MaxNodes nodes (mappings, arrays and primitive leaves) with keys from   *)
(* ObjectKeys, their keys in an order a JavaScript object enumerates.      *)
(***************************************************************************)
MaxNodes == 4

ObjectKeys == {<<"a">>, <<"b">>, <<"0">>, <<"a", ".", "b">>, <<>>}

Leaves == {Prim(0), Prim(1)}

\* array indices enumerate before the other keys, in ascending order
EnumerationOrder(ks) ==
    \A p, q \in 1..Len(ks) :
        (p < q /\ IsArrayIndex(ks[q]))
        => (IsArrayIndex(ks[p]) /\ IndexValue(ks[p]) < IndexValue(ks[q]))

KeySeqs(K, n) ==
    {ks \in [1..n -> K] :
        /\ \A p, q \in 1..n : p # q => ks[p] # ks[q]
        /\ EnumerationOrder(ks)}

\* Trees(K, n): the values of exactly n nodes; Forests(K, n): the non-empty
\* sequences of values of n nodes in all
RECURSIVE Trees(_, _)
RECURSIVE Forests(_, _)
Forests(K, n) ==
    {<<x>> : x \in Trees(K, n)}
    \cup UNION {{<<x>> \o f : x \in Trees(K, m), f \in Forests(K, n - m)} :
                    m \in 1..(n - 1)}

Trees(K, n) ==
    IF n = 1 THEN Leaves \cup {EmptyObj, EmptyArr}
    ELSE {ArrayOf(f) : f \in Forests(K, n - 1)}
         \cup UNION {{Obj(ks, f) : ks \in KeySeqs(K, Len(f))} : f \in Forests(K, n - 1)}

Mappings(K, n) == UNION {{x \in Trees(K, m) : x.t = "obj"} : m \in 1..n}

\* the keys without "." that are not empty
SimpleKeys == {<<"a">>, <<"b">>, <<"0">>}

\* over all keys the mappings of less than MaxNodes nodes, and over the
\* simple keys those of MaxNodes nodes too
FlattenInputs ==
    Mappings(ObjectKeys, MaxNodes - 1) \cup Mappings(SimpleKeys, MaxNodes)

(***************************************************************************)
(* flatten(o) followed by unflatten of its result, with the default        *)
(* separator.                                                              *)
(***************************************************************************)
DefaultSeparator == <<".">>

InitFlatten ==
    /\ pc = "ready"
    /\ op = "flatten"
    /\ args \in {<<o>> : o \in FlattenInputs}
    /\ ret = None
    /\ CliIdle /\ LoadIdle /\ ChunkIdle /\ HeapIdle /\ EnvIdle

Flatten ==
    /\ pc = "ready" /\ op = "flatten"
    /\ ret' = flatten(args[1], DefaultSeparator)
    /\ pc' = "flattened"
    /\ UNCHANGED <<op, args>>
    /\ UNCHANGED <<cliVars, loadVars, chunkVars, heapVars, env>>

Unflatten ==
    /\ pc = "flattened"
    /\ ret' = unflatten(ret, DefaultSeparator)
    /\ pc' = "unflattened"
    /\ UNCHANGED <<op, args>>
    /\ UNCHANGED <<cliVars, loadVars, chunkVars, heapVars, env>>

NextFlatten == Flatten \/ Unflatten

SpecFlatten == InitFlatten /\ [][NextFlatten]_vars

\* the keys of every mapping in x at nesting depth d or more are all in S
RECURSIVE AllKeys(_, _, _)
AllKeys(x, d, S) ==
    /\ (x.t = "obj" /\ d <= 0) => \A p \in 1..Len(x.ks) : x.ks[p] \in S
    /\ \A p \in 1..Len(x.vs) : AllKeys(x.vs[p], d - 1, S)

\* C3 as stated: for all mappings o, unflatten(flatten(o)) is deeply equal to o
C3_RoundTrip ==
    pc = "unflattened" => DeepEqual(ret, args[1])

\* keys that are not empty and hold no "."
PlainKeys == {k \in ObjectKeys : k # <<>> /\ \A p \in 1..Len(k) : k[p] # "."}

\* keys that Number() does not convert to a number
NonNumericKeys == {k \in ObjectKeys : isNaN(ToNumber(k))}

\* C3 as amended: unflatten(flatten(o)) is deeply equal to o for every
\* mapping o whose keys are not empty and hold no '.', and in which no
\* mapping nested below o has a key that converts to a number.
C3_RoundTripPlainKeys ==
    (/\ pc = "unflattened"
     /\ AllKeys(args[1], 0, PlainKeys)
     /\ AllKeys(args[1], 1, NonNumericKeys))
    => DeepEqual(ret, args[1])

\* the round trip of a mapping that holds an array of two elements, or an
\* array in an array, or a mapping in an array
C3_Witness ==
    /\ pc = "unflattened"
    /\ AllKeys(args[1], 0, PlainKeys)
    /\ AllKeys(args[1], 1, NonNumericKeys)
    /\ \E p \in 1..Len(args[1].vs) :
          LET x == args[1].vs[p]
          IN  /\ IsArray(x)
              /\ ArrayLength(x) > 0
              /\ (ArrayLength(x) = 2 \/ IsObjectType(x.vs[1]))

(***************************************************************************)
(* src/object.js: deepMerge                                                *)
(***************************************************************************)
\* const isObject = (obj) => obj && typeof obj === 'object' && !Array.isArray(obj)
isObject(obj) == Truthy(obj) /\ IsObjectType(obj) /\ ~IsArray(obj)

\* the elements arr.concat(...items) appends for the items from the n-th on:
\* an item that is an array contributes its elements, another item itself
RECURSIVE ConcatItems(_, _)
ConcatItems(items, n) ==
    IF n > Len(items) THEN <<>>
    ELSE (IF IsArray(items[n]) THEN Elements(items[n]) ELSE <<items[n]>>)
         \o ConcatItems(items, n + 1)

\* pVal.concat(...oVal)
ConcatSpread(pVal, oVal) == ArrayOf(Elements(pVal) \o ConcatItems(Elements(oVal), 1))

RECURSIVE deepMerge(_)
RECURSIVE MergeKeysFrom(_, _, _)
RECURSIVE MergeObjectsFrom(_, _, _)
\* Object.keys(obj).forEach(key => ...) from the n-th key on, acting on prev
MergeKeysFrom(prev, obj, n) ==
    IF n > Len(obj.ks) THEN prev
    ELSE LET key == obj.ks[n]
             pVal == GetProp(prev, key)
             oVal == obj.vs[n]
             merged == IF IsArray(pVal) /\ IsArray(oVal) THEN ConcatSpread(pVal, oVal)
                       ELSE IF isObject(pVal) /\ isObject(oVal)
                       THEN deepMerge(<<pVal, oVal>>)
                       ELSE oVal
         IN  MergeKeysFrom(SetProp(prev, key, merged), obj, n + 1)

\* objects.reduce((prev, obj) => ..., {}) from the n-th object on
MergeObjectsFrom(prev, objects, n) ==
    IF n > Len(objects) THEN prev
    ELSE MergeObjectsFrom(MergeKeysFrom(prev, objects[n], 1), objects, n + 1)

\* deepMerge(...objects)
deepMerge(objects) == MergeObjectsFrom(EmptyObj, objects, 1)

(***************************************************************************)
(* The mappings deepMerge is applied to: one mapping, or two of at most    *)
(* MaxMergeNodes nodes together, and the example of the documentation.     *)
(***************************************************************************)
MaxMergeNodes == 5

MergeKeys == {<<"a">>, <<"b">>}

\* deepMerge({a:1,b:{c:2}}, {b:{d:3},e:4})
MergeExample ==
    <<Obj(<<<<"a">>, <<"b">>>>, <<Prim(1), Obj(<<<<"c">>>>, <<Prim(2)>>)>>),
      Obj(<<<<"b">>, <<"e">>>>, <<Obj(<<<<"d">>>>, <<Prim(3)>>), Prim(4)>>)>>

\* {a:1,b:{c:2,d:3},e:4}
MergeExampleResult ==
    Obj(<<<<"a">>, <<"b">>, <<"e">>>>,
        <<Prim(1), Obj(<<<<"c">>, <<"d">>>>, <<Prim(2), Prim(3)>>), Prim(4)>>)

MergeInputs ==
    {MergeExample}
    \cup {<<a>> : a \in Mappings(MergeKeys, MaxMergeNodes - 1)}
    \cup UNION {{<<a, b>> : a \in {x \in Trees(MergeKeys, m) : x.t = "obj"},
                            b \in Mappings(MergeKeys, MaxMergeNodes - m)} :
                    m \in 1..(MaxMergeNodes - 1)}

InitMerge ==
    /\ pc = "ready"
    /\ op = "deepMerge"
    /\ args \in MergeInputs
    /\ ret = None
    /\ CliIdle /\ LoadIdle /\ ChunkIdle /\ HeapIdle /\ EnvIdle

DeepMerge ==
    /\ pc = "ready" /\ op = "deepMerge"
    /\ ret' = deepMerge(args)
    /\ pc' = "returned"
    /\ UNCHANGED <<op, args>>
    /\ UNCHANGED <<cliVars, loadVars, chunkVars, heapVars, env>>

NextMerge == DeepMerge

SpecMerge == InitMerge /\ [][NextMerge]_vars

\* what C4 says deepMerge(a, b) is, key by key
RECURSIVE Merged(_, _)
MergedValue(a, b, key) ==
    IF ~HasProp(b, key) THEN GetProp(a, key)
    ELSE IF ~HasProp(a, key) THEN GetProp(b, key)
    ELSE IF IsArray(GetProp(a, key)) /\ IsArray(GetProp(b, key))
    THEN ArrayOf(Elements(GetProp(a, key)) \o Elements(GetProp(b, key)))
    ELSE IF GetProp(a, key).t = "obj" /\ GetProp(b, key).t = "obj"
    THEN Merged(GetProp(a, key), GetProp(b, key))
    ELSE GetProp(b, key)

Merged(a, b) ==
    LET onlyB == SelectSeq(b.ks, LAMBDA k : ~HasProp(a, k))
        ks == a.ks \o onlyB
    IN  Obj(ks, [p \in 1..Len(ks) |-> MergedValue(a, b, ks[p])])

\* C4: deepMerge(a, b) has exactly the keys of a and of b; a key of only one
\* keeps its value; under a key of both, two arrays are concatenated (each
\* element of b's array one element of the result), two mappings are merged
\* recursively, and otherwise b's value overrides a's.  In particular
\* deepMerge({a:1,b:{c:2}}, {b:{d:3},e:4}) = {a:1,b:{c:2,d:3},e:4}.
C4_DeepMerge ==
    (pc = "returned" /\ op = "deepMerge" /\ Len(args) = 2)
    => /\ DeepEqual(ret, Merged(args[1], args[2]))
       /\ args = MergeExample => DeepEqual(ret, MergeExampleResult)

(***************************************************************************)
(* src/string.js: slugify, on the code units of the text                   *)
(***************************************************************************)
UpperCase ==
    <<"A", "B", "C", "D", "E", "F", "G", "H", "I", "J", "K", "L", "M", "N", "O",
      "P", "Q", "R", "S", "T", "U", "V", "W", "X", "Y", "Z">>

LowerCase ==
    <<"a", "b", "c", "d", "e", "f", "g", "h", "i", "j", "k", "l", "m", "n", "o",
      "p", "q", "r", "s", "t", "u", "v", "w", "x", "y", "z">>

IsUpper(c) == \E p \in 1..Len(UpperCase) : UpperCase[p] = c
IsLower(c) == \E p \in 1..Len(LowerCase) : LowerCase[p] = c

\* \w: a letter, a digit or the underscore
IsWordChar(c) == IsUpper(c) \/ IsLower(c) \/ IsDigit(c) \/ c = "_"

\* .toLowerCase()
toLowerCase(s) ==
    [p \in 1..Len(s) |->
        IF IsUpper(s[p]) THEN LowerCase[CHOOSE q \in 1..Len(UpperCase) : UpperCase[q] = s[p]]
        ELSE s[p]]

WhiteSpace == {" ", "\t", "\n", "\r"}
Hyphen == {"-"}

\* s without its leading code units that are in D
RECURSIVE DropLeading(_, _)
DropLeading(s, D) ==
    IF s # <<>> /\ Head(s) \in D THEN DropLeading(Tail(s), D) ELSE s

\* s without its trailing code units that are in D
RECURSIVE DropTrailing(_, _)
DropTrailing(s, D) ==
    IF s # <<>> /\ s[Len(s)] \in D THEN DropTrailing(SubSeq(s, 1, Len(s) - 1), D)
    ELSE s

\* .trim()
trim(s) == DropTrailing(DropLeading(s, WhiteSpace), WhiteSpace)

\* .replace(/\s+/g, '-'): every run of white space becomes one hyphen
RECURSIVE ReplaceSpaces(_)
ReplaceSpaces(s) ==
    IF s = <<>> THEN <<>>
    ELSE IF Head(s) \in WhiteSpace THEN <<"-">> \o ReplaceSpaces(DropLeading(s, WhiteSpace))
    ELSE <<Head(s)>> \o ReplaceSpaces(Tail(s))

\* .replace(/[^\w\-]+/g, ''): only word characters and hyphens stay
RemoveNonWord(s) == SelectSeq(s, LAMBDA c : IsWordChar(c) \/ c \in Hyphen)

\* .replace(/\-\-+/g, '-'): every run of two or more hyphens becomes one
RECURSIVE CollapseHyphens(_)
CollapseHyphens(s) ==
    IF s = <<>> THEN <<>>
    ELSE IF Head(s) \in Hyphen THEN <<"-">> \o CollapseHyphens(DropLeading(s, Hyphen))
    ELSE <<Head(s)>> \o CollapseHyphens(Tail(s))

\* the replacements of slugify in a wrong order: the hyphens at the two ends
\* trimmed before the other characters are removed
SlugifyTrimFirst(text) ==
    CollapseHyphens(RemoveNonWord(
        DropTrailing(DropLeading(ReplaceSpaces(trim(toLowerCase(text))), Hyphen), Hyphen)))

\* slugify(text)
slugify(text) ==
    DropTrailing(
        DropLeading(CollapseHyphens(RemoveNonWord(ReplaceSpaces(trim(toLowerCase(text))))),
                    Hyphen),
        Hyphen)

(***************************************************************************)
(* src/string.cjs: levenshteinDistance.  A row of the matrix is a sequence *)
(* whose element j + 1 is matrix[i][j].                                    *)
(***************************************************************************)
Min3(a, b, c) == Min(a, Min(b, c))

\* matrix[i][0..j] from matrix[i][0..j-1] (row) and matrix[i - 1] (prev)
RECURSIVE FillRow(_, _, _, _, _)
FillRow(row, prev, n, str1, str2) ==
    LET j == Len(row)
    IN  IF j > Len(str1) THEN row
        ELSE FillRow(Append(row,
                        IF str2[n] = str1[j] THEN prev[j]
                        ELSE Min3(prev[j] + 1, row[j] + 1, prev[j + 1] + 1)),
                     prev, n, str1, str2)

\* matrix[str2.length] from matrix[n - 1] = prev
RECURSIVE LastRow(_, _, _, _)
LastRow(prev, n, str1, str2) ==
    IF n > Len(str2) THEN prev
    ELSE LastRow(FillRow(<<n>>, prev, n, str1, str2), n + 1, str1, str2)

\* the distance with substitutions left out of the minimum
LevenshteinNoSubstitution(str1, str2) ==
    IF str1 = str2 THEN 0 ELSE Len(str1) + Len(str2)

\* levenshteinDistance(str1, str2)
levenshteinDistance(str1, str2) ==
    LastRow([j \in 1..(Len(str1) + 1) |-> j - 1], 1, str1, str2)[Len(str1) + 1]

(***************************************************************************)
(* src/string.js: truncate; src/string.cjs: camelCase                      *)
(***************************************************************************)
\* the default value of the parameter suffix
DefaultSuffix == <<".", ".", ".">>

\* truncate(text, length, suffix)
truncate(text, length, suffix) ==
    IF Len(text) <= length THEN text
    ELSE slice(text, 0, length - Len(suffix)) \o suffix

\* .toUpperCase() and .toLowerCase() of one code unit
UpperOf(c) ==
    IF IsLower(c) THEN UpperCase[CHOOSE q \in 1..Len(LowerCase) : LowerCase[q] = c] ELSE c

LowerOf(c) ==
    IF IsUpper(c) THEN LowerCase[CHOOSE q \in 1..Len(UpperCase) : UpperCase[q] = c] ELSE c

\* /(?:^\w|[A-Z]|\b\w)/ matches the code unit at index p (from 0) of text
CamelMatch(text, p) ==
    LET c == text[p + 1]
    IN  \/ p = 0 /\ IsWordChar(c)
        \/ IsUpper(c)
        \/ IsWordChar(c) /\ (p = 0 \/ ~IsWordChar(text[p]))

\* .replace(/(?:^\w|[A-Z]|\b\w)/g, (word, index) => ...)
ReplaceWordStarts(text) ==
    [q \in 1..Len(text) |->
        IF CamelMatch(text, q - 1)
        THEN (IF q - 1 = 0 THEN LowerOf(text[q]) ELSE UpperOf(text[q]))
        ELSE text[q]]

\* camelCase(text); .replace(/\s+/g, '') removes the white space
camelCase(text) == SelectSeq(ReplaceWordStarts(text), LAMBDA c : c \notin WhiteSpace)

\* a JavaScript number that is the quotient num / den of two integers
Quotient(num, den) == [num |-> num, den |-> den]

\* the similarity with the distance divided by the length of the shorter string
SimilarityByShorter(str1, str2) ==
    LET longer == IF Len(str1) > Len(str2) THEN str1 ELSE str2
        shorter == IF Len(str1) > Len(str2) THEN str2 ELSE str1
    IN  IF Len(longer) = 0 THEN Quotient(1, 1)
        ELSE Quotient(Len(longer) - levenshteinDistance(longer, shorter),
                      Max(Len(shorter), 1))

\* similarity(str1, str2)
similarity(str1, str2) ==
    LET longer == IF Len(str1) > Len(str2) THEN str1 ELSE str2
        shorter == IF Len(str1) > Len(str2) THEN str2 ELSE str1
    IN  IF Len(longer) = 0 THEN Quotient(1, 1)
        ELSE Quotient(Len(longer) - levenshteinDistance(longer, shorter), Len(longer))

(***************************************************************************)
(* The texts the string functions are applied to.                          *)
(***************************************************************************)
MaxSlugLen == 4
MaxLevLen == 3
MaxTextLen == 4

SlugAlphabet == {"a", "B", " ", "-", "_", "!"}

LevAlphabet == {"a", "b"}

TextAlphabet == {"a", "b"}

Suffixes == {DefaultSuffix, <<>>, <<"~">>}

LongTextHere == <<"L", "o", "n", "g", " ", "t", "e", "x", "t", " ", "h", "e", "r", "e">>

CamelAlphabet == {"a", "b", "-", " "}

HelloWorld == <<"h", "e", "l", "l", "o", "-", "w", "o", "r", "l", "d">>
HelloWorldExample == <<"h", "e", "l", "l", "o", "-", "w", "o", "r", "l", "d", "-", "e", "x", "a", "m", "p", "l", "e">>

Kitten == <<"k", "i", "t", "t", "e", "n">>
Sitting == <<"s", "i", "t", "t", "i", "n", "g">>

InitString ==
    /\ pc = "ready"
    /\ \/ /\ op = "slugify"
          /\ args \in {<<s>> : s \in SeqsUpTo(SlugAlphabet, MaxSlugLen)}
       \/ /\ op = "truncate"
          /\ args \in ((SeqsUpTo(TextAlphabet, MaxTextLen) \X (0..(MaxTextLen + 1)))
                        \cup {<<LongTextHere, 10>>})
                      \cup (SeqsUpTo(TextAlphabet, MaxTextLen) \X (0..(MaxTextLen + 1))
                                \X Suffixes)
       \/ /\ op = "camelCase"
          /\ args \in {<<s>> : s \in SeqsUpTo(CamelAlphabet, MaxTextLen)
                                        \cup {HelloWorld, HelloWorldExample}}
       \/ /\ op \in {"levenshteinDistance", "similarity"}
          /\ args \in (SeqsUpTo(LevAlphabet, MaxLevLen) \X SeqsUpTo(LevAlphabet, MaxLevLen))
                      \cup {<<Kitten, Sitting>>}
    /\ ret = None
    /\ CliIdle /\ LoadIdle /\ ChunkIdle /\ HeapIdle /\ EnvIdle

Slugify ==
    /\ pc = "ready" /\ op = "slugify"
    /\ ret' = slugify(args[1])
    /\ pc' = "returned"
    /\ UNCHANGED <<op, args>>
    /\ UNCHANGED <<cliVars, loadVars, chunkVars, heapVars, env>>

\* slugify applied to the result of slugify
SlugifyResult ==
    /\ pc = "returned" /\ op = "slugify"
    /\ args' = <<ret>>
    /\ ret' = slugify(ret)
    /\ pc' = "reapplied"
    /\ UNCHANGED op
    /\ UNCHANGED <<cliVars, loadVars, chunkVars, heapVars, env>>

LevenshteinDistance ==
    /\ pc = "ready" /\ op = "levenshteinDistance"
    /\ ret' = levenshteinDistance(args[1], args[2])
    /\ pc' = "returned"
    /\ UNCHANGED <<op, args>>
    /\ UNCHANGED <<cliVars, loadVars, chunkVars, heapVars, env>>

Similarity ==
    /\ pc = "ready" /\ op = "similarity"
    /\ ret' = similarity(args[1], args[2])
    /\ pc' = "returned"
    /\ UNCHANGED <<op, args>>
    /\ UNCHANGED <<cliVars, loadVars, chunkVars, heapVars, env>>

\* truncate called with two arguments or with three
Truncate ==
    /\ pc = "ready" /\ op = "truncate"
    /\ ret' = truncate(args[1], args[2], IF Len(args) = 3 THEN args[3] ELSE DefaultSuffix)
    /\ pc' = "returned"
    /\ UNCHANGED <<op, args>>
    /\ UNCHANGED <<cliVars, loadVars, chunkVars, heapVars, env>>

CamelCase ==
    /\ pc = "ready" /\ op = "camelCase"
    /\ ret' = camelCase(args[1])
    /\ pc' = "returned"
    /\ UNCHANGED <<op, args>>
    /\ UNCHANGED <<cliVars, loadVars, chunkVars, heapVars, env>>

NextString ==
    \/ Slugify
    \/ SlugifyResult
    \/ LevenshteinDistance
    \/ Similarity
    \/ Truncate
    \/ CamelCase

SpecString == InitString /\ [][NextString]_vars

\* C7: slugify is idempotent: slugify(slugify(s)) = slugify(s) for all
\* strings s.
C7_SlugifyIdempotent ==
    (pc = "reapplied" /\ op = "slugify") => ret = args[1]

\* slugify has been applied to a slug that its first application had to
\* build by trimming, replacing and collapsing
C7_Witness ==
    /\ pc = "reapplied" /\ op = "slugify"
    /\ ret = <<"a", "-", "b">>

\* the strings one insertion, deletion or substitution away from s, over the
\* code units in sigma
Edits(s, sigma) ==
    {SubSeq(s, 1, p - 1) \o SubSeq(s, p + 1, Len(s)) : p \in 1..Len(s)}
    \cup {SubSeq(s, 1, p - 1) \o <<c>> \o SubSeq(s, p + 1, Len(s)) :
            p \in 1..Len(s), c \in sigma}
    \cup {SubSeq(s, 1, p) \o <<c>> \o SubSeq(s, p + 1, Len(s)) :
            p \in 0..Len(s), c \in sigma}

\* the least number of edits after which b is among the strings reached,
\* none longer than cap, counting from the n edits that reached `reached`
RECURSIVE EditsNeeded(_, _, _, _, _)
EditsNeeded(reached, b, sigma, cap, n) ==
    IF b \in reached THEN n
    ELSE EditsNeeded(reached \cup {t \in UNION {Edits(s, sigma) : s \in reached} :
                                        Len(t) <= cap},
                     b, sigma, cap, n + 1)

MinimumEdits(a, b) ==
    EditsNeeded({a}, b, {a[p] : p \in 1..Len(a)} \cup {b[p] : p \in 1..Len(b)},
                Max(Len(a), Len(b)) + 1, 0)

\* C10: levenshteinDistance(a, b) is the minimum number of single-character
\* insertions, deletions and substitutions that transform a into b, empty
\* strings included; levenshteinDistance('kitten', 'sitting') = 3.
C10_LevenshteinMinimum ==
    (pc = "returned" /\ op = "levenshteinDistance")
    => /\ (Len(args[1]) <= MaxLevLen /\ Len(args[2]) <= MaxLevLen)
            => ret = MinimumEdits(args[1], args[2])
       /\ args = <<Kitten, Sitting>> => ret = 3

\* a distance that takes a substitution and an insertion
C10_Witness ==
    /\ pc = "returned" /\ op = "levenshteinDistance"
    /\ args = <<<<"a", "b">>, <<"b", "b", "a">>>>
    /\ ret = 2

\* C11: similarity(a, b) = (max_len - levenshteinDistance(a, b)) / max_len
\* with max_len = max(|a|, |b|); it is 1.0 when both strings are empty, and it
\* always lies in [0, 1] (the distance never exceeds max_len).
C11_Similarity ==
    (pc = "returned" /\ op = "similarity")
    => LET a == args[1]
           b == args[2]
           max_len == Max(Len(a), Len(b))
       IN  /\ ret.den > 0
           /\ 0 <= ret.num /\ ret.num <= ret.den
           /\ (a = <<>> /\ b = <<>>) => ret.num = ret.den
           /\ max_len > 0
                => ret.num * max_len = (max_len - levenshteinDistance(a, b)) * ret.den
           /\ args = <<Kitten, Sitting>> => ret.num * 7 = 4 * ret.den

\* the similarity of a shorter first string to a longer second one
C11_Witness ==
    /\ pc = "returned" /\ op = "similarity"
    /\ args = <<<<"a">>, <<"b", "a", "b">>>>
    /\ ret = Quotient(1, 3)

\* C16: truncate(text, length, suffix) never returns more than `length`
\* characters, for every text, every length >= 0 and every suffix (default
\* '...'): a text of at most `length` characters is returned unchanged, and
\* a longer text is cut so that the result, suffix included, has exactly
\* `length` characters; truncate('Long text here', 10) = 'Long te...'.
C16_TruncateLength ==
    (pc = "returned" /\ op = "truncate")
    => /\ Len(ret) <= args[2]
       /\ Len(args[1]) <= args[2] => ret = args[1]
       /\ Len(args[1]) > args[2] => Len(ret) = args[2]
       /\ args = <<LongTextHere, 10>> => ret = <<"L", "o", "n", "g", " ", "t", "e", ".", ".", ".">>

\* the words of text from index p on, cur being the word read so far: the
\* runs of code units that are neither a hyphen nor white space
RECURSIVE WordsFrom(_, _, _)
WordsFrom(text, p, cur) ==
    IF p > Len(text) THEN (IF cur = <<>> THEN <<>> ELSE <<cur>>)
    ELSE IF text[p] \in Hyphen \cup WhiteSpace
    THEN (IF cur = <<>> THEN <<>> ELSE <<cur>>) \o WordsFrom(text, p + 1, <<>>)
    ELSE WordsFrom(text, p + 1, Append(cur, text[p]))

\* the words put together, word n and those after it starting upper-case
RECURSIVE JoinCapitalised(_, _)
JoinCapitalised(words, n) ==
    IF n > Len(words) THEN <<>>
    ELSE <<UpperOf(words[n][1])>> \o Tail(words[n]) \o JoinCapitalised(words, n + 1)

\* C17: camelCase turns words separated by hyphens or spaces into one word
\* with the separators removed, the first word starting lower-case and every
\* later word starting upper-case: camelCase('hello-world') = 'helloWorld'
\* and camelCase('hello-world-example') = 'helloWorldExample'.
C17_CamelCase ==
    (pc = "returned" /\ op = "camelCase")
    => LET words == WordsFrom(args[1], 1, <<>>)
       IN  /\ ret = IF words = <<>> THEN <<>>
                    ELSE <<LowerOf(words[1][1])>> \o Tail(words[1])
                         \o JoinCapitalised(words, 2)
           /\ args[1] = HelloWorld => ret = <<"h", "e", "l", "l", "o", "W", "o", "r", "l", "d">>
           /\ args[1] = HelloWorldExample => ret = <<"h", "e", "l", "l", "o", "W", "o", "r", "l", "d", "E", "x", "a", "m", "p", "l", "e">>

(***************************************************************************)
(* src/array.js: unique and chunk.  A JavaScript array is a sequence whose *)
(* element k + 1 is the array's element k.                                 *)
(***************************************************************************)
Contains(seq, x) == \E p \in 1..Len(seq) : seq[p] = x

\* new Set(arr), as the sequence of its values in insertion order
RECURSIVE SetOf(_, _)
SetOf(arr, values) ==
    IF arr = <<>> THEN values
    ELSE SetOf(Tail(arr),
               IF Contains(values, Head(arr)) THEN values ELSE Append(values, Head(arr)))

\* the values of arr, each where it occurs last
RECURSIVE UniqueKeepLast(_)
UniqueKeepLast(arr) ==
    IF arr = <<>> THEN <<>>
    ELSE IF Contains(Tail(arr), Head(arr)) THEN UniqueKeepLast(Tail(arr))
    ELSE <<Head(arr)>> \o UniqueKeepLast(Tail(arr))

\* unique(arr) = [...new Set(arr)]
unique(arr) == SetOf(arr, <<>>)

\* a slice that runs to the end of the array
ChunkToEnd(arr, start, size) == slice(arr, start, Len(arr))

\* arr.slice(i, i + size) of chunk
ChunkAt(arr, start, size) == slice(arr, start, start + size)

\* takeLast(arr, n): arr.slice(-n)
takeLast(arr, n) == slice(arr, 0 - n, Len(arr))

\* dropLast(arr, n): arr.slice(0, -n)
dropLast(arr, n) == slice(arr, 0, 0 - n)

MaxArrayLen == 4
MaxChunkSize == 3

ArrayValues == {1, 2, 3}

OneToSix == <<1, 2, 3, 4, 5, 6>>

\* the sizes chunk is called with: positive ones, zero and a negative one
ChunkSizes == (0 - 1)..MaxChunkSize

InitArray ==
    /\ pc = "ready"
    /\ \/ /\ op = "unique"
          /\ args \in {<<arr>> : arr \in SeqsUpTo(ArrayValues, MaxArrayLen)}
       \/ /\ op = "chunk"
          /\ args \in (SeqsUpTo(ArrayValues, MaxArrayLen) \X ChunkSizes)
                      \cup {<<OneToSix, 2>>}
       \/ /\ op \in {"takeLast", "dropLast"}
          /\ args \in {<<arr, n>> \in SeqsUpTo(ArrayValues, MaxArrayLen) \X (0..MaxArrayLen) :
                          n <= Len(arr)}
       \/ /\ op = "shuffle"
          /\ args \in {<<arr>> : arr \in SeqsUpTo(ArrayValues, MaxArrayLen)}
    /\ ret = None
    /\ ChunkIdle
    /\ CliIdle /\ LoadIdle /\ HeapIdle /\ EnvIdle

Unique ==
    /\ pc = "ready" /\ op = "unique"
    /\ ret' = unique(args[1])
    /\ pc' = "returned"
    /\ UNCHANGED <<op, args>>
    /\ UNCHANGED <<cliVars, loadVars, chunkVars, heapVars, env>>

\* const chunks = []; let i = 0
ChunkStart ==
    /\ pc = "ready" /\ op = "chunk"
    /\ chunks' = <<>>
    /\ i' = 0
    /\ pc' = "loop"
    /\ UNCHANGED <<libVars, shuffled, swaps>>
    /\ UNCHANGED <<cliVars, loadVars, heapVars, env>>

\* a turn that moves the index forward by one element at least
ChunkStepForward ==
    /\ pc = "loop" /\ op = "chunk"
    /\ i < Len(args[1])
    /\ Len(chunks) <= Len(args[1])
    /\ chunks' = Append(chunks, ChunkAt(args[1], i, args[2]))
    /\ i' = i + Max(args[2], 1)
    /\ UNCHANGED pc
    /\ UNCHANGED <<libVars, shuffled, swaps>>
    /\ UNCHANGED <<cliVars, loadVars, heapVars, env>>

\* one turn of the loop.  A loop that is still running after more turns than
\* the array has elements is followed no further.
ChunkStep ==
    /\ pc = "loop" /\ op = "chunk"
    /\ i < Len(args[1])
    /\ Len(chunks) <= Len(args[1])
    /\ chunks' = Append(chunks, ChunkAt(args[1], i, args[2]))
    /\ i' = i + args[2]
    /\ UNCHANGED pc
    /\ UNCHANGED <<libVars, shuffled, swaps>>
    /\ UNCHANGED <<cliVars, loadVars, heapVars, env>>

\* return chunks
ChunkReturn ==
    /\ pc = "loop" /\ op = "chunk"
    /\ ~(i < Len(args[1]))
    /\ ret' = chunks
    /\ pc' = "returned"
    /\ UNCHANGED <<op, args>>
    /\ UNCHANGED <<cliVars, loadVars, chunkVars, heapVars, env>>

TakeLast ==
    /\ pc = "ready" /\ op = "takeLast"
    /\ ret' = takeLast(args[1], args[2])
    /\ pc' = "returned"
    /\ UNCHANGED <<op, args>>
    /\ UNCHANGED <<cliVars, loadVars, chunkVars, heapVars, env>>

DropLast ==
    /\ pc = "ready" /\ op = "dropLast"
    /\ ret' = dropLast(args[1], args[2])
    /\ pc' = "returned"
    /\ UNCHANGED <<op, args>>
    /\ UNCHANGED <<cliVars, loadVars, chunkVars, heapVars, env>>

\* const shuffled = [...arr]; let i = shuffled.length - 1
ShuffleStart ==
    /\ pc = "ready" /\ op = "shuffle"
    /\ shuffled' = args[1]
    /\ i' = Len(args[1]) - 1
    /\ swaps' = 0
    /\ pc' = "loop"
    /\ UNCHANGED <<libVars, chunks>>
    /\ UNCHANGED <<cliVars, loadVars, heapVars, env>>

\* shuffled with the elements at the indices a and b exchanged
Swap(arr, a, b) == [arr EXCEPT ![a + 1] = arr[b + 1], ![b + 1] = arr[a + 1]]

\* a step that copies shuffled[j] to shuffled[i] and does not swap
ShuffleStepCopy ==
    /\ pc = "loop" /\ op = "shuffle"
    /\ i > 0
    /\ \E j \in 0..i : shuffled' = [shuffled EXCEPT ![i + 1] = shuffled[j + 1]]
    /\ i' = i - 1
    /\ swaps' = swaps + 1
    /\ UNCHANGED <<pc, libVars, chunks>>
    /\ UNCHANGED <<cliVars, loadVars, heapVars, env>>

\* one turn of the loop: j = Math.floor(Math.random() * (i + 1)) is any of
\* 0..i, then shuffled[i] and shuffled[j] are exchanged and i--
ShuffleStep ==
    /\ pc = "loop" /\ op = "shuffle"
    /\ i > 0
    /\ \E j \in 0..i : shuffled' = Swap(shuffled, i, j)
    /\ i' = i - 1
    /\ swaps' = swaps + 1
    /\ UNCHANGED <<pc, libVars, chunks>>
    /\ UNCHANGED <<cliVars, loadVars, heapVars, env>>

\* return shuffled
ShuffleReturn ==
    /\ pc = "loop" /\ op = "shuffle"
    /\ ~(i > 0)
    /\ ret' = shuffled
    /\ pc' = "returned"
    /\ UNCHANGED <<op, args>>
    /\ UNCHANGED <<cliVars, loadVars, chunkVars, heapVars, env>>

NextArray ==
    \/ Unique
    \/ ChunkStart
    \/ ChunkStep
    \/ ChunkReturn
    \/ TakeLast
    \/ DropLast
    \/ ShuffleStart
    \/ ShuffleStep
    \/ ShuffleReturn

SpecArray == InitArray /\ [][NextArray]_vars

\* a call that can take a step does take one
SpecArrayFair == SpecArray /\ WF_vars(NextArray)

\* chunk of a non-empty array with a size of zero or less has not returned,
\* and its loop index is below the length of the array
ChunkLoopsOn ==
    (op = "chunk" /\ Len(args[1]) > 0 /\ args[2] <= 0)
        => /\ pc # "returned"
           /\ pc = "loop" => i < Len(args[1])

\* C29: chunk(arr, size) terminates if and only if arr is empty or
\* size >= 1: with a non-empty array and size <= 0 the loop index never
\* reaches the length of the array and the call never returns.
C29_ChunkTermination ==
    /\ []ChunkLoopsOn
    /\ (op = "chunk" /\ (Len(args[1]) = 0 \/ args[2] >= 1))
            ~> (op = "chunk" /\ pc = "returned")

\* the loop of chunk with size 0 has taken more turns than the array has
\* elements, and goes on
C29_Witness ==
    /\ op = "chunk" /\ pc = "loop"
    /\ args = <<<<1, 2>>, 0>>
    /\ Len(chunks) > 2
    /\ i = 0

\* the number of elements of arr equal to x
Occurrences(arr, x) == Cardinality({p \in 1..Len(arr) : arr[p] = x})

\* shuffle has returned a permutation of arr after |arr| - 1 swap steps (no
\* step for the empty array)
ShuffleReturnsPermutation ==
    (op = "shuffle" /\ pc = "returned")
        => /\ swaps = Max(Len(args[1]) - 1, 0)
           /\ Len(ret) = Len(args[1])
           /\ \A x \in ArrayValues : Occurrences(ret, x) = Occurrences(args[1], x)

C23_TakeLastDropLast ==
    LET arr == args[1]
        n == args[2]
    IN  /\ (pc = "returned" /\ op = "takeLast")
            => /\ Len(ret) = n
               /\ \A p \in 1..n : ret[p] = arr[Len(arr) - n + p]
        /\ (pc = "returned" /\ op = "dropLast")
            => /\ Len(ret) = Len(arr) - n
               /\ \A p \in 1..(Len(arr) - n) : ret[p] = arr[p]

\* C8: unique(arr) has no two equal elements, holds exactly the elements
\* that occur in arr, and keeps them in the order of their first occurrence
\* in arr.
C8_UniqueFirstOccurrences ==
    (pc = "returned" /\ op = "unique")
    => LET arr == args[1]
           First(x) == CHOOSE p \in 1..Len(arr) :
                            arr[p] = x /\ \A q \in 1..(p - 1) : arr[q] # x
       IN  /\ \A p, q \in 1..Len(ret) : ret[p] = ret[q] => p = q
           /\ {ret[p] : p \in 1..Len(ret)} = {arr[p] : p \in 1..Len(arr)}
           /\ \A p, q \in 1..Len(ret) : p < q => First(ret[p]) < First(ret[q])

\* unique has returned for an array whose repeated element comes first and
\* last
C8_Witness ==
    /\ pc = "returned" /\ op = "unique"
    /\ args = <<<<2, 1, 2>>>>
    /\ ret = <<2, 1>>

RECURSIVE Concatenation(_)
Concatenation(slices) ==
    IF slices = <<>> THEN <<>> ELSE Head(slices) \o Concatenation(Tail(slices))

\* C9: for an integer size >= 1, chunk(arr, size) returns ceil(|arr| / size)
\* consecutive slices whose concatenation is arr; every slice but the last
\* has size elements and the last has between 1 and size; chunk([], size) is
\* []; chunk([1,2,3,4,5,6], 2) is [[1,2],[3,4],[5,6]].
C9_ChunkSlices ==
    (pc = "returned" /\ op = "chunk" /\ args[2] >= 1)
    => LET arr == args[1]
           size == args[2]
       IN  /\ Len(ret) = (Len(arr) + size - 1) \div size
           /\ Concatenation(ret) = arr
           /\ \A p \in 1..(Len(ret) - 1) : Len(ret[p]) = size
           /\ ret # <<>> => Len(ret[Len(ret)]) \in 1..size
           /\ arr = <<>> => ret = <<>>
           /\ args = <<OneToSix, 2>> => ret = <<<<1, 2>>, <<3, 4>>, <<5, 6>>>>

\* chunk has returned slices the last of which is shorter than the size
C9_Witness ==
    /\ pc = "returned" /\ op = "chunk"
    /\ args = <<<<1, 2, 3>>, 2>>
    /\ ret = <<<<1, 2>>, <<3>>>>

(***************************************************************************)
(* Objects with identity.  heap[a] is the mapping or array at address a;   *)
(* its values vs are primitives, null, undefined or references Ref(b) to   *)
(* other addresses.  `new`, {} and [] allocate the next address.           *)
(***************************************************************************)
Ref(a) == [t |-> "ref", v |-> a, ks |-> <<>>, vs |-> <<>>]
Null == [t |-> "null", v |-> 0, ks |-> <<>>, vs |-> <<>>]

IsRef(x) == x.t = "ref"

\* typeof x === 'object'
TypeofObject(x) == IsRef(x) \/ x = Null

\* Array.isArray(x), for a value x of heap h
IsArrayIn(h, x) == IsRef(x) /\ h[x.v].t = "arr"

\* the heap with the value x built in it, and the value that denotes x there:
\* a mapping or an array gets a fresh address, and so does each one inside it
RECURSIVE Store(_, _)
RECURSIVE StoreProps(_, _, _, _)
Store(h, x) ==
    IF ~IsObjectType(x) THEN [h |-> h, v |-> x]
    ELSE LET a == Len(h) + 1
         IN  [h |-> StoreProps(Append(h, [x EXCEPT !.ks = <<>>, !.vs = <<>>]), a, x, 1),
              v |-> Ref(a)]

StoreProps(h, a, x, n) ==
    IF n > Len(x.ks) THEN h
    ELSE LET c == Store(h, x.vs[n])
         IN  StoreProps([c.h EXCEPT ![a].ks = Append(@, x.ks[n]),
                                    ![a].vs = Append(@, c.v)],
                        a, x, n + 1)

\* the values xs built one after the other
RECURSIVE StoreAll(_, _, _)
StoreAll(h, xs, vals) ==
    IF xs = <<>> THEN [h |-> h, v |-> vals]
    ELSE LET c == Store(h, Head(xs))
         IN  StoreAll(c.h, Tail(xs), Append(vals, c.v))

\* the value x of heap h with every reference replaced by what it refers to
RECURSIVE Tree(_, _)
Tree(h, x) ==
    IF ~IsRef(x) THEN x
    ELSE LET c == h[x.v]
         IN  [c EXCEPT !.vs = [p \in 1..Len(c.vs) |-> Tree(h, c.vs[p])]]

\* the addresses of the mappings and arrays reachable from x
RECURSIVE Reachable(_, _)
Reachable(h, x) ==
    IF ~IsRef(x) THEN {}
    ELSE {x.v} \cup UNION {Reachable(h, h[x.v].vs[p]) : p \in 1..Len(h[x.v].vs)}

(***************************************************************************)
(* src/object.js: clone.  A function that allocates returns the heap after *)
(* the call, h, and its value, v.                                          *)
(***************************************************************************)
\* a copy of the mapping or array itself, holding the values it holds
CloneOneLevel(h, obj) ==
    IF ~IsRef(obj) THEN [h |-> h, v |-> obj]
    ELSE [h |-> Append(h, h[obj.v]), v |-> Ref(Len(h) + 1)]

RECURSIVE cloneIn(_, _)
RECURSIVE CloneElements(_, _, _, _)
RECURSIVE CloneProps(_, _, _, _)
\* obj.map(clone), from element n on, into the new array dst
CloneElements(h, src, dst, n) ==
    IF n >= ArrayLength(h[src]) THEN h
    ELSE LET c == cloneIn(h, GetProp(h[src], IndexKey(n)))
         IN  CloneElements([c.h EXCEPT ![dst] = SetProp(@, IndexKey(n), c.v)],
                           src, dst, n + 1)

\* for (const key in obj) cloned[key] = clone(obj[key]), from the n-th key on
CloneProps(h, src, dst, n) ==
    IF n > Len(h[src].ks) THEN h
    ELSE LET c == cloneIn(h, h[src].vs[n])
         IN  CloneProps([c.h EXCEPT ![dst] = SetProp(@, h[src].ks[n], c.v)],
                        src, dst, n + 1)

\* clone(obj)
cloneIn(h, obj) ==
    IF obj = Null \/ ~TypeofObject(obj) THEN [h |-> h, v |-> obj]
    ELSE IF IsArrayIn(h, obj)
    THEN [h |-> CloneElements(Append(h, EmptyArr), obj.v, Len(h) + 1, 0),
          v |-> Ref(Len(h) + 1)]
    ELSE [h |-> CloneProps(Append(h, EmptyObj), obj.v, Len(h) + 1, 1),
          v |-> Ref(Len(h) + 1)]

(***************************************************************************)
(* src/object.js: deepMerge, on objects with identity.                     *)
(***************************************************************************)
\* isObject(x), for a value x of heap h
isObjectIn(h, x) == IsRef(x) /\ h[x.v].t = "obj"

\* the elements pVal.concat(...items) appends for the items from the n-th on
RECURSIVE ConcatItemsIn(_, _, _)
ConcatItemsIn(h, items, n) ==
    IF n > Len(items) THEN <<>>
    ELSE (IF IsArrayIn(h, items[n]) THEN Elements(h[items[n].v]) ELSE <<items[n]>>)
         \o ConcatItemsIn(h, items, n + 1)

\* pVal.concat(...oVal): a new array
ConcatSpreadIn(h, pVal, oVal) ==
    [h |-> Append(h, ArrayOf(Elements(h[pVal.v])
                             \o ConcatItemsIn(h, Elements(h[oVal.v]), 1))),
     v |-> Ref(Len(h) + 1)]

RECURSIVE deepMergeIn(_, _)
RECURSIVE MergeKeysIn(_, _, _, _, _)
RECURSIVE MergeObjectsIn(_, _, _, _)
\* Object.keys(obj).forEach(key => ...) from the n-th of the keys on, acting
\* on the mapping at address prev
MergeKeysIn(h, prev, obj, keys, n) ==
    IF n > Len(keys) THEN h
    ELSE LET key == keys[n]
             pVal == GetProp(h[prev], key)
             oVal == GetProp(h[obj.v], key)
             merged == IF IsArrayIn(h, pVal) /\ IsArrayIn(h, oVal)
                       THEN ConcatSpreadIn(h, pVal, oVal)
                       ELSE IF isObjectIn(h, pVal) /\ isObjectIn(h, oVal)
                       THEN deepMergeIn(h, <<pVal, oVal>>)
                       ELSE [h |-> h, v |-> oVal]
         IN  MergeKeysIn([merged.h EXCEPT ![prev] = SetProp(@, key, merged.v)],
                         prev, obj, keys, n + 1)

\* objects.reduce((prev, obj) => ..., prev) from the n-th object on
MergeObjectsIn(h, prev, objects, n) ==
    IF n > Len(objects) THEN h
    ELSE MergeObjectsIn(MergeKeysIn(h, prev, objects[n], h[objects[n].v].ks, 1),
                        prev, objects, n + 1)

\* deepMerge(...objects)
deepMergeIn(h, objects) ==
    [h |-> MergeObjectsIn(Append(h, EmptyObj), Len(h) + 1, objects, 1),
     v |-> Ref(Len(h) + 1)]

(***************************************************************************)
(* src/array.js: unique, chunk and shuffle, on arrays with identity.       *)
(***************************************************************************)
\* [...new Set(arr)]: a new array
uniqueIn(h, arr) ==
    [h |-> Append(h, ArrayOf(unique(Elements(h[arr.v])))), v |-> Ref(Len(h) + 1)]

\* the loop of chunk from index n on: each slice a new array, pushed on the
\* array at address acc
RECURSIVE ChunkLoop(_, _, _, _, _)
ChunkLoop(h, arr, size, n, acc) ==
    IF ~(n < ArrayLength(h[arr.v])) THEN h
    ELSE LET pushed == IndexKey(ArrayLength(h[acc]))
             h1 == Append(h, ArrayOf(ChunkAt(Elements(h[arr.v]), n, size)))
         IN  ChunkLoop([h1 EXCEPT ![acc] = SetProp(@, pushed, Ref(Len(h1)))],
                       arr, size, n + size, acc)

\* chunk(arr, size), for a size with which the loop ends
chunkIn(h, arr, size) ==
    [h |-> ChunkLoop(Append(h, EmptyArr), arr, size, 0, Len(h) + 1),
     v |-> Ref(Len(h) + 1)]

\* [shuffled[n], shuffled[j]] = [shuffled[j], shuffled[n]] for n down to 1,
\* where j = Math.floor(Math.random() * (n + 1)) is random[n]
RECURSIVE ShuffleLoop(_, _, _, _)
ShuffleLoop(h, copy, n, random) ==
    IF ~(n > 0) THEN h
    ELSE LET atN == GetProp(h[copy], IndexKey(n))
             atJ == GetProp(h[copy], IndexKey(random[n]))
         IN  ShuffleLoop([h EXCEPT ![copy] =
                             SetProp(SetProp(@, IndexKey(n), atJ), IndexKey(random[n]), atN)],
                         copy, n - 1, random)

\* a shuffle that works on arr itself
ShuffleInPlace(h, arr, random) ==
    [h |-> ShuffleLoop(h, arr.v, ArrayLength(h[arr.v]) - 1, random), v |-> arr]

\* shuffle(arr): shuffled = [...arr] is a new array
shuffleIn(h, arr, random) ==
    [h |-> ShuffleLoop(Append(h, ArrayOf(Elements(h[arr.v]))), Len(h) + 1,
                       ArrayLength(h[arr.v]) - 1, random),
     v |-> Ref(Len(h) + 1)]

(***************************************************************************)
(* src/object.cjs: set and get, on objects with identity.  The keys of the *)
(* model are none of those a mapping or an array inherits, so `key in`     *)
(* looks at own properties.                                                *)
(***************************************************************************)
TypeError == [t |-> "TypeError", v |-> 0, ks |-> <<>>, vs |-> <<>>]

\* the loop of set from keys[n] on and the final assignment; `key in null`
\* and an assignment to a property of null throw
RECURSIVE SetLoop(_, _, _, _, _)
SetLoop(h, current, keys, n, value) ==
    IF current = Null THEN [h |-> h, v |-> TypeError]
    ELSE IF n = Len(keys)
    THEN [h |-> [h EXCEPT ![current.v] = SetProp(@, keys[n], value)], v |-> Undefined]
    ELSE LET key == keys[n]
             h1 == IF ~HasProp(h[current.v], key)
                      \/ ~TypeofObject(GetProp(h[current.v], key))
                   THEN [Append(h, EmptyObj) EXCEPT
                            ![current.v] = SetProp(@, key, Ref(Len(h) + 1))]
                   ELSE h
         IN  SetLoop(h1, GetProp(h1[current.v], key), keys, n + 1, value)

\* set(obj, path, value)
setIn(h, obj, path, value) ==
    LET done == SetLoop(h, obj, Split(path, <<".">>), 1, value)
    IN  [h |-> done.h, v |-> IF done.v = TypeError THEN TypeError ELSE obj]

\* for (const key of keys) { ... } of get, from keys[n] on
RECURSIVE GetLoop(_, _, _, _, _)
GetLoop(h, result, keys, n, defaultValue) ==
    IF n > Len(keys)
    THEN (IF result # Undefined THEN result ELSE defaultValue)
    ELSE IF result \in {Null, Undefined} \/ ~TypeofObject(result) THEN defaultValue
    ELSE GetLoop(h, GetProp(h[result.v], keys[n]), keys, n + 1, defaultValue)

\* get(obj, path, defaultValue)
getIn(h, obj, path, defaultValue) ==
    GetLoop(h, obj, Split(path, <<".">>), 1, defaultValue)

(***************************************************************************)
(* The calls made on objects with identity.                                *)
(***************************************************************************)
MaxHeapNodes == 4

\* x with null where it holds 0
RECURSIVE WithNull(_)
WithNull(x) ==
    IF x = Prim(0) THEN Null
    ELSE [x EXCEPT !.vs = [p \in 1..Len(x.vs) |-> WithNull(x.vs[p])]]

HeapValues ==
    LET trees == UNION {Trees(MergeKeys, n) : n \in 1..MaxHeapNodes}
    IN  trees \cup {WithNull(x) : x \in trees} \cup {Undefined}

\* the state in which fn is called with the values xs, built in an empty heap
Called(fn, xs) ==
    /\ op = fn
    /\ before = xs
    /\ heap = StoreAll(<<>>, xs, <<>>).h
    /\ args = StoreAll(<<>>, xs, <<>>).v

HeapArrays == {x \in HeapValues : x.t = "arr"}

\* the values Math.random() can lead to in the loop of shuffle: random[n] is
\* one of 0..n
Randoms(x) == {r \in [1..(ArrayLength(x) - 1) -> 0..(ArrayLength(x) - 1)] :
                    \A n \in DOMAIN r : r[n] <= n}

\* the mappings, paths and values set is called with
SetObjects ==
    LET objects == Mappings(MergeKeys, MaxHeapNodes - 1)
    IN  objects \cup {WithNull(x) : x \in objects}

SetPaths ==
    {<<"a">>, <<"a", ".", "b">>, <<"a", ".", "b", ".", "a">>, <<"a", ".", "0">>, <<>>}

SetValues == {Prim(1), Null, EmptyObj}

InitHeap ==
    /\ pc = "ready"
    /\ \/ \E x \in HeapValues : Called("clone", <<x>>) /\ EnvIdle
       \/ \E xs \in MergeInputs : Called("deepMerge", xs) /\ EnvIdle
       \/ \E x \in HeapArrays : Called("unique", <<x>>) /\ EnvIdle
       \/ \E x \in HeapArrays, size \in 1..MaxChunkSize :
              Called("chunk", <<x, Prim(size)>>) /\ EnvIdle
       \/ \E x \in HeapArrays : Called("shuffle", <<x>>) /\ env \in Randoms(x)
       \/ \E obj \in SetObjects, path \in SetPaths, value \in SetValues :
              LET stored == StoreAll(<<>>, <<obj, value>>, <<>>)
              IN  /\ op = "set"
                  /\ before = <<obj, path, value>>
                  /\ heap = stored.h
                  /\ args = <<stored.v[1], path, stored.v[2]>>
                  /\ EnvIdle
    /\ ret = None
    /\ CliIdle /\ LoadIdle /\ ChunkIdle

Clone ==
    /\ pc = "ready" /\ op = "clone"
    /\ heap' = cloneIn(heap, args[1]).h
    /\ ret' = cloneIn(heap, args[1]).v
    /\ pc' = "returned"
    /\ UNCHANGED <<op, args, before>>
    /\ UNCHANGED <<cliVars, loadVars, chunkVars, env>>

\* heap and ret after a call that gives the heap r.h and the value r.v
Return(r) ==
    /\ pc = "ready"
    /\ heap' = r.h
    /\ ret' = r.v
    /\ pc' = "returned"
    /\ UNCHANGED <<op, args, before>>
    /\ UNCHANGED <<cliVars, loadVars, chunkVars, env>>

DeepMergeObjects == op = "deepMerge" /\ Return(deepMergeIn(heap, args))

UniqueArray == op = "unique" /\ Return(uniqueIn(heap, args[1]))

ChunkArray == op = "chunk" /\ Return(chunkIn(heap, args[1], args[2].v))

ShuffleArray == op = "shuffle" /\ Return(shuffleIn(heap, args[1], env))

SetValue == op = "set" /\ Return(setIn(heap, args[1], args[2], args[3]))

\* get(obj, path) after set(obj, path, value) has returned
GetValue ==
    /\ pc = "returned" /\ op = "set"
    /\ ret # TypeError
    /\ ret' = getIn(heap, args[1], args[2], Undefined)
    /\ pc' = "got"
    /\ UNCHANGED <<op, args, heapVars>>
    /\ UNCHANGED <<cliVars, loadVars, chunkVars, env>>

\* the caller assigns to a property of a mapping or array of the result
MutateResult ==
    /\ pc = "returned" /\ op = "clone"
    /\ \E a \in Reachable(heap, ret), k \in {<<"a">>, <<"0">>} :
          heap' = [heap EXCEPT ![a] = SetProp(@, k, Prim(7))]
    /\ pc' = "mutated"
    /\ UNCHANGED <<op, args, ret, before>>
    /\ UNCHANGED <<cliVars, loadVars, chunkVars, env>>

\* the caller assigns to a property of a mapping or array of the result of
\* deepMerge
MutateMerged ==
    /\ pc = "returned" /\ op = "deepMerge"
    /\ \E a \in Reachable(heap, ret), k \in {<<"a">>, <<"0">>} :
          heap' = [heap EXCEPT ![a] = SetProp(@, k, Prim(7))]
    /\ pc' = "mutated"
    /\ UNCHANGED <<op, args, ret, before>>
    /\ UNCHANGED <<cliVars, loadVars, chunkVars, env>>

NextHeap ==
    \/ Clone
    \/ MutateResult
    \/ MutateMerged
    \/ DeepMergeObjects
    \/ UniqueArray
    \/ ChunkArray
    \/ ShuffleArray
    \/ SetValue
    \/ GetValue

SpecHeap == InitHeap /\ [][NextHeap]_vars

\* C12: clone(o) is deeply equal to o; no mapping or array reachable from the
\* result is one reachable from o, so mutating the clone at any depth never
\* changes o; a primitive value is returned as it is.
C12_CloneIsDeepCopy ==
    /\ (op = "clone" /\ pc = "returned")
        => /\ DeepEqual(Tree(heap, ret), before[1])
           /\ Reachable(heap, ret) \cap Reachable(heap, args[1]) = {}
           /\ ~IsRef(args[1]) => ret = args[1]
    /\ (op = "clone" /\ pc = "mutated")
        => Tree(heap, args[1]) = before[1]

\* a mapping nested in the clone of a mapping has been assigned to
C12_Witness ==
    /\ op = "clone" /\ pc = "mutated"
    /\ before[1] = Obj(<<<<"a">>>>, <<Obj(<<<<"b">>>>, <<Prim(1)>>)>>)
    /\ Tree(heap, ret) = Obj(<<<<"a">>>>, <<Obj(<<<<"b">>, <<"a">>>>, <<Prim(1), Prim(7)>>)>>)

(***************************************************************************)
(* src/object.cjs and src/string.js: the functions that wrap an operation  *)
(* of the platform in try { ... } catch { return <sentinel> }.  try lists  *)
(* the operations the wrapper performs inside its try block, in order;     *)
(* env[k] says whether the k-th of them returns or throws.                 *)
(***************************************************************************)
Wrappers ==
    [readFile    |-> [try |-> <<"readFileSync">>, catch |-> "null"],
     writeFile   |-> [try |-> <<"writeFileSync">>, catch |-> "false"],
     readJson    |-> [try |-> <<"readFileSync", "JSON.parse">>, catch |-> "null"],
     writeJson   |-> [try |-> <<"JSON.stringify", "writeFileSync">>, catch |-> "false"],
     getStats    |-> [try |-> <<"statSync">>, catch |-> "null"],
     getFileSize |-> [try |-> <<"statSync">>, catch |-> "null"],
     listDir     |-> [try |-> <<"readdirSync", "statSync">>, catch |-> "[]"],
     createDir   |-> [try |-> <<"mkdirSync">>, catch |-> "false"],
     deleteFile  |-> [try |-> <<"unlinkSync">>, catch |-> "false"],
     copyFile    |-> [try |-> <<"copyFileSync">>, catch |-> "false"],
     findFiles   |-> [try |-> <<"new RegExp", "regex.test">>, catch |-> "[]"],
     parseUrl    |-> [try |-> <<"new URL">>, catch |-> "null"]]

WrapperNames == DOMAIN Wrappers

Returned(value) == [kind |-> "returned", value |-> value]
Thrown == [kind |-> "thrown", value |-> "exception"]

\* the operations of the try block that are reached: those up to the first
\* one that throws
Reached(fn, outcomes) ==
    {k \in 1..Len(Wrappers[fn].try) : \A j \in 1..(k - 1) : outcomes[j] = "returns"}

\* a wrapper that lets the exception of the operation through
CallWithoutCatch(fn, outcomes) ==
    IF \E k \in Reached(fn, outcomes) : outcomes[k] = "throws"
    THEN Thrown
    ELSE Returned("result")

\* try { ...; return result } catch { return sentinel }
CallWrapped(fn, outcomes) ==
    IF \E k \in Reached(fn, outcomes) : outcomes[k] = "throws"
    THEN Returned(Wrappers[fn].catch)
    ELSE Returned("result")

Paths == {"", "a.json", "/tmp/a", "http://a/"}

InitWrappers ==
    /\ pc = "ready"
    /\ op \in WrapperNames
    /\ args \in {<<path>> : path \in Paths}
    /\ env \in [1..Len(Wrappers[op].try) -> {"returns", "throws"}]
    /\ ret = None
    /\ CliIdle /\ LoadIdle /\ ChunkIdle /\ HeapIdle

CallWrapper ==
    /\ pc = "ready" /\ op \in WrapperNames
    /\ ret' = CallWrapped(op, env)
    /\ pc' = "returned"
    /\ UNCHANGED <<op, args>>
    /\ UNCHANGED <<cliVars, loadVars, chunkVars, heapVars, env>>

NextWrappers == CallWrapper

SpecWrappers == InitWrappers /\ [][NextWrappers]_vars

\* C13: when the underlying operation throws, no wrapper propagates the
\* exception and each returns its sentinel: readFile, readJson, getStats,
\* getFileSize and parseUrl null; writeFile, writeJson, createDir, deleteFile
\* and copyFile false; listDir and findFiles an empty array.
C13_SentinelOnThrow ==
    (/\ pc = "returned" /\ op \in WrapperNames
     /\ \E k \in Reached(op, env) : env[k] = "throws")
    => /\ ret.kind = "returned"
       /\ op \in {"readFile", "readJson", "getStats", "getFileSize", "parseUrl"}
            => ret.value = "null"
       /\ op \in {"writeFile", "writeJson", "createDir", "deleteFile", "copyFile"}
            => ret.value = "false"
       /\ op \in {"listDir", "findFiles"} => ret.value = "[]"

\* readJson has returned after JSON.parse threw on the content it had read
C13_Witness ==
    /\ pc = "returned" /\ op = "readJson"
    /\ env = <<"returns", "throws">>
    /\ ret = Returned("null")

\* C14: deepMerge, clone, unique, chunk and shuffle never modify an argument:
\* after the call every argument, and everything reachable from it, is deeply
\* equal to its value before the call.
C14_ArgumentsNotModified ==
    (pc = "returned" /\ op \in {"deepMerge", "clone", "unique", "chunk", "shuffle"})
    => \A k \in 1..Len(args) : DeepEqual(Tree(heap, args[k]), before[k])

\* shuffle has returned an array in another order than its argument, and
\* deepMerge has merged two nested mappings
C14_Witness ==
    /\ pc = "returned"
    /\ \/ /\ op = "shuffle"
          /\ before = <<ArrayOf(<<Prim(0), Prim(1)>>)>>
          /\ Tree(heap, ret) = ArrayOf(<<Prim(1), Prim(0)>>)
       \/ /\ op = "deepMerge"
          /\ before = <<Obj(<<<<"a">>>>, <<EmptyObj>>),
                        Obj(<<<<"a">>>>, <<Obj(<<<<"b">>>>, <<Prim(1)>>)>>)>>

\* C30: no mapping or array reachable from the result of deepMerge is one
\* reachable from an argument, so mutating the result afterwards at any
\* depth never changes an argument, for any number of arguments.
C30_MergeResultIndependent ==
    /\ (op = "deepMerge" /\ pc = "returned")
        => \A k \in 1..Len(args) :
              Reachable(heap, ret) \cap Reachable(heap, args[k]) = {}
    /\ (op = "deepMerge" /\ pc = "mutated")
        => \A k \in 1..Len(args) : Tree(heap, args[k]) = before[k]

\* C15: set(obj, path, value) mutates obj in place and returns that same
\* object, and afterwards get(obj, path) returns value, for every mapping obj
\* whatever values it already holds along the path, every dot-separated path
\* and every value other than undefined.
C15_SetThenGet ==
    /\ (op = "set" /\ pc = "returned") => ret = args[1]
    /\ (op = "set" /\ pc = "got") => ret = args[3]

(***************************************************************************)
(* The crypto module: hashPassword and verifyPassword.  pbkdf2Sync is a    *)
(* function of its arguments; what it returns is written as the record of  *)
(* those arguments.  randomBytes(32).toString('hex') is env.               *)
(***************************************************************************)
Text(s) == [t |-> "string", s |-> s]
NullSalt == [t |-> "null", s |-> ""]

\* the default values of the parameters iterations and keylen
DefaultIterations == 100000
DefaultKeylen == 64

\* pbkdf2Sync(password, salt, iterations, keylen, 'sha512').toString('hex')
pbkdf2Sync(password, salt, iterations, keylen) ==
    [password |-> password, salt |-> salt, iterations |-> iterations,
     keylen |-> keylen, digest |-> "sha512"]

\* the value of the k-th parameter: the argument when there is one, and the
\* default otherwise
Parameter(arguments, k, default) ==
    IF Len(arguments) >= k THEN arguments[k] ELSE default

\* a hashPassword that returns its salt argument, not the salt it used
HashReturnsGivenSalt(password, salt, iterations, keylen, random) ==
    LET actualSalt == IF salt.t = "string" /\ salt.s # "" THEN salt ELSE Text(random)
    IN  [salt |-> salt,
         hash |-> pbkdf2Sync(password, actualSalt, iterations, keylen),
         iterations |-> iterations,
         keylen |-> keylen]

\* hashPassword(password, salt, iterations, keylen)
hashPassword(password, salt, iterations, keylen, random) ==
    LET actualSalt == IF salt.t = "string" /\ salt.s # "" THEN salt ELSE Text(random)
    IN  [salt |-> actualSalt,
         hash |-> pbkdf2Sync(password, actualSalt, iterations, keylen),
         iterations |-> iterations,
         keylen |-> keylen]

\* verifyPassword(password, salt, hash, iterations, keylen)
verifyPassword(password, salt, hash, iterations, keylen) ==
    pbkdf2Sync(password, salt, iterations, keylen) = hash

Passwords == {"", "mypassword", "other"}
Salts == {NullSalt, Text(""), Text("salt")}
IterationCounts == {1, DefaultIterations}
KeyLengths == {32, DefaultKeylen}
RandomSalts == {"5f1d", "a0c3"}

\* the argument lists of hashPassword: one to four arguments
HashArguments ==
    {<<p>> : p \in Passwords}
    \cup (Passwords \X Salts)
    \cup (Passwords \X Salts \X IterationCounts)
    \cup (Passwords \X Salts \X IterationCounts \X KeyLengths)

InitCrypto ==
    /\ pc = "ready"
    /\ op = "hashPassword"
    /\ args \in HashArguments
    /\ env \in RandomSalts
    /\ ret = None
    /\ CliIdle /\ LoadIdle /\ ChunkIdle /\ HeapIdle

HashPassword ==
    /\ pc = "ready" /\ op = "hashPassword"
    /\ ret' = hashPassword(args[1], Parameter(args, 2, NullSalt),
                           Parameter(args, 3, DefaultIterations),
                           Parameter(args, 4, DefaultKeylen), env)
    /\ pc' = "hashed"
    /\ UNCHANGED <<op, args>>
    /\ UNCHANGED <<cliVars, loadVars, chunkVars, heapVars, env>>

\* verifyPassword(p, r.salt, r.hash, r.iterations, r.keylen), or
\* verifyPassword(p, r.salt, r.hash), for the r that hashPassword returned
VerifyPassword ==
    /\ pc = "hashed" /\ op = "hashPassword"
    /\ \E arguments \in {<<args[1], ret.salt, ret.hash, ret.iterations, ret.keylen>>,
                         <<args[1], ret.salt, ret.hash>>} :
          /\ args' = arguments
          /\ ret' = verifyPassword(arguments[1], arguments[2], arguments[3],
                                   Parameter(arguments, 4, DefaultIterations),
                                   Parameter(arguments, 5, DefaultKeylen))
    /\ op' = "verifyPassword"
    /\ pc' = "returned"
    /\ UNCHANGED <<cliVars, loadVars, chunkVars, heapVars, env>>

NextCrypto == HashPassword \/ VerifyPassword

SpecCrypto == InitCrypto /\ [][NextCrypto]_vars

\* C18: with r = hashPassword(p, salt, iterations, keylen),
\* verifyPassword(p, r.salt, r.hash, r.iterations, r.keylen) is true, and so
\* is verifyPassword(p, r.salt, r.hash) when r was made with the default
\* iterations and key length; when no salt is supplied a fresh one is
\* generated and returned in r.salt.
C18_VerifyAfterHash ==
    /\ (op = "hashPassword" /\ pc = "hashed")
        => /\ (Len(args) < 2 \/ args[2] = NullSalt) => ret.salt = Text(env)
           /\ ret.iterations = Parameter(args, 3, DefaultIterations)
           /\ ret.keylen = Parameter(args, 4, DefaultKeylen)
    /\ (op = "verifyPassword" /\ pc = "returned" /\ Len(args) = 5) => ret = TRUE
    /\ (op = "verifyPassword" /\ pc = "returned" /\ Len(args) = 3
        /\ args[3].iterations = DefaultIterations /\ args[3].keylen = DefaultKeylen)
        => ret = TRUE

\* a password hashed with a generated salt and the defaults has been verified
\* with three arguments
C18_Witness ==
    /\ op = "verifyPassword" /\ pc = "returned"
    /\ args = <<"mypassword", Text(env),
                pbkdf2Sync("mypassword", Text(env), DefaultIterations, DefaultKeylen)>>
    /\ ret = TRUE

(***************************************************************************)
(* Colours: rgbToHex and hexToRgb.                                         *)
(***************************************************************************)
HexDigits ==
    <<"0", "1", "2", "3", "4", "5", "6", "7", "8", "9", "a", "b", "c", "d", "e", "f">>

IsHexDigit(c) == \E d \in 1..Len(HexDigits) : HexDigits[d] = toLowerCase(<<c>>)[1]

HexDigitVal(c) ==
    (CHOOSE d \in 1..Len(HexDigits) : HexDigits[d] = toLowerCase(<<c>>)[1]) - 1

\* x << n, for operands whose product stays below 2^31, where << is exact
ShiftLeft(x, n) == x * 2^n

\* n.toString(16), n a positive integer or zero
RECURSIVE toString16(_)
toString16(n) ==
    IF n < 16 THEN <<HexDigits[n + 1]>>
    ELSE toString16(n \div 16) \o <<HexDigits[(n % 16) + 1]>>

\* text.substr(start, length), start >= 0
substr(text, start, length) ==
    SubSeq(text, start + 1, Min(start + length, Len(text)))

\* text.replace(c, ''): the first c of the text is removed
RECURSIVE ReplaceFirst(_, _)
ReplaceFirst(text, c) ==
    IF text = <<>> THEN <<>>
    ELSE IF Head(text) = c THEN Tail(text)
    ELSE <<Head(text)>> \o ReplaceFirst(Tail(text), c)

RECURSIVE SkipHexDigits(_, _)
SkipHexDigits(s, p) ==
    IF At(s, p) # "" /\ IsHexDigit(At(s, p)) THEN SkipHexDigits(s, p + 1) ELSE p

RECURSIVE HexValue(_, _, _, _)
HexValue(s, p, q, acc) ==
    IF p >= q THEN acc ELSE HexValue(s, p + 1, q, acc * 16 + HexDigitVal(s[p]))

\* parseInt(text, 16): white space, a sign and 0x are skipped, then the
\* longest run of hexadecimal digits is read; NaN when there is none
parseInt16(s) ==
    LET p == SkipSpace(s, 1)
        a == IF At(s, p) \in {"+", "-"} THEN p + 1 ELSE p
        b == IF At(s, a) = "0" /\ At(s, a + 1) \in {"x", "X"} THEN a + 2 ELSE a
        c == SkipHexDigits(s, b)
    IN  IF c = b THEN NaN
        ELSE IF At(s, p) = "-" THEN 0 - HexValue(s, b, c, 0)
        ELSE HexValue(s, b, c, 0)

hexToRgb(hex) ==
    LET cleanHex == ReplaceFirst(hex, "#")
    IN  [r |-> parseInt16(substr(cleanHex, 0, 2)),
         g |-> parseInt16(substr(cleanHex, 2, 2)),
         b |-> parseInt16(substr(cleanHex, 4, 2))]

RgbToHexUnpadded(r, g, b) ==
    <<"#">> \o toString16(ShiftLeft(r, 16) + ShiftLeft(g, 8) + b)

rgbToHex(r, g, b) ==
    <<"#">> \o slice(toString16(ShiftLeft(1, 24) + ShiftLeft(r, 16) + ShiftLeft(g, 8) + b),
                     1, 7)

\* the channel values
Channels == 0..255

\* values with one and with two digits, and the ends of the range
ChannelCorners == {0, 10, 16, 255}

\* every value of each channel, beside corner values of the other two
ColorArguments ==
    (Channels \X ChannelCorners \X ChannelCorners)
        \cup (ChannelCorners \X Channels \X ChannelCorners)
        \cup (ChannelCorners \X ChannelCorners \X Channels)

InitColor ==
    /\ pc = "ready"
    /\ op = "rgbToHex"
    /\ args \in ColorArguments
    /\ before = args
    /\ heap = <<>>
    /\ ret = None
    /\ CliIdle /\ LoadIdle /\ ChunkIdle /\ EnvIdle

RgbToHex ==
    /\ pc = "ready" /\ op = "rgbToHex"
    /\ ret' = rgbToHex(args[1], args[2], args[3])
    /\ pc' = "converted"
    /\ UNCHANGED <<op, args>>
    /\ UNCHANGED <<cliVars, loadVars, chunkVars, heapVars, env>>

\* hexToRgb of the colour rgbToHex returned, with and without its '#'
HexToRgb ==
    /\ pc = "converted" /\ op = "rgbToHex"
    /\ \E hex \in {ret, Tail(ret)} :
          /\ args' = <<hex>>
          /\ ret' = hexToRgb(hex)
    /\ op' = "hexToRgb"
    /\ pc' = "returned"
    /\ UNCHANGED <<cliVars, loadVars, chunkVars, heapVars, env>>

\* C19: for r, g, b in 0..255, rgbToHex(r, g, b) is '#' followed by exactly
\* six hexadecimal digits, and hexToRgb of it is {r, g, b}, with or without
\* the leading '#'.
C19_RgbHexRoundTrip ==
    /\ (op = "rgbToHex" /\ pc = "converted")
        => /\ Len(ret) = 7
           /\ ret[1] = "#"
           /\ \A p \in 2..7 : \E d \in 1..Len(HexDigits) : HexDigits[d] = ret[p]
    /\ (op = "hexToRgb" /\ pc = "returned")
        => /\ ret = [r |-> before[1], g |-> before[2], b |-> before[3]]
           /\ hexToRgb(<<"#">> \o ReplaceFirst(args[1], "#"))
                = hexToRgb(ReplaceFirst(args[1], "#"))

\* a colour whose channels need leading zeros has been converted and read
\* back without its '#'
C19_Witness ==
    /\ op = "hexToRgb" /\ pc = "returned"
    /\ before = <<0, 10, 255>>
    /\ args = <<<<"0", "0", "0", "a", "f", "f">>>>
    /\ ret = [r |-> 0, g |-> 10, b |-> 255]

(***************************************************************************)
(* bytes(bytes, decimals).  A byte count is the number m * 1024^e, kept as *)
(* the record [m, e]: such a number is exact as a double for the m used    *)
(* here, and so is its quotient by a power of 1024.                        *)
(***************************************************************************)
Bytes(m, e) == [m |-> m, e |-> e]

\* const k = 1024
KiloBytes == 1024

\* the default value of the parameter decimals
DefaultDecimals == 2

sizes ==
    << <<"B", "y", "t", "e", "s">>, <<"K", "B">>, <<"M", "B">>, <<"G", "B">>,
       <<"T", "B">>, <<"P", "B">>, <<"E", "B">>, <<"Z", "B">>, <<"Y", "B">> >>

UndefinedText == <<"u", "n", "d", "e", "f", "i", "n", "e", "d">>

\* sizes[i]
SizeAt(n) == IF n + 1 \in DOMAIN sizes THEN sizes[n + 1] ELSE UndefinedText

\* Math.floor(Math.log(m) / Math.log(k)) for an integer m >= 1
RECURSIVE FloorLog(_)
FloorLog(m) == IF m < KiloBytes THEN 0 ELSE 1 + FloorLog(m \div KiloBytes)

\* the text of the integer mant with a point before its last scale digits
FixedText(mant, scale) ==
    IF scale = 0 THEN IndexKey(mant)
    ELSE IndexKey(mant \div 10^scale) \o <<".">> \o
         LET low == IndexKey(mant % 10^scale)
         IN  [p \in 1..(scale - Len(low)) |-> "0"] \o low

\* (num / den).toFixed(dm): the integer n with n / 10^dm nearest to
\* num / den, the larger one of two, written with dm decimals
toFixed(num, den, dm) ==
    FixedText((2 * num * 10^dm + den) \div (2 * den), dm)

\* String(v) for the number v
NumberToString(v) ==
    IF v = NaN THEN <<"N", "a", "N">>
    ELSE (IF v.neg THEN <<"-">> ELSE <<>>) \o FixedText(v.mant, v.scale)

bytes(n, decimals) ==
    IF n = Bytes(0, 0) THEN <<"0", " ", "B", "y", "t", "e", "s">>
    ELSE LET dm == IF decimals < 0 THEN 0 ELSE decimals
             j == FloorLog(n.m)
             ii == n.e + j
         IN  NumberToString(parseFloat(toFixed(n.m, KiloBytes^j, dm)))
                \o <<" ">> \o SizeAt(ii)

\* the largest exponent e of a byte count m * 1024^e
MaxExponent == 9

\* every m below MaxMantissa, and the neighbours of 1024^2
MaxMantissa == 1100

Mantissas == 1..MaxMantissa \cup {1536, 2047, 1048575, 1048576, 1048577}

SmallMantissas == {1, 2, 1000, 1023}

Decimals == {0 - 1, 0, 1, 2, 3}

ByteCounts ==
    {Bytes(0, 0)}
        \cup {Bytes(m, 0) : m \in Mantissas}
        \cup {Bytes(m, e) : m \in SmallMantissas, e \in 1..MaxExponent}

BytesArguments == {<<n>> : n \in ByteCounts} \cup (ByteCounts \X Decimals)

InitBytes ==
    /\ pc = "ready"
    /\ op = "bytes"
    /\ args \in BytesArguments
    /\ ret = None
    /\ CliIdle /\ LoadIdle /\ ChunkIdle /\ HeapIdle /\ EnvIdle

BytesCall ==
    /\ pc = "ready" /\ op = "bytes"
    /\ ret' = bytes(args[1], Parameter(args, 2, DefaultDecimals))
    /\ pc' = "returned"
    /\ UNCHANGED <<op, args>>
    /\ UNCHANGED <<cliVars, loadVars, chunkVars, heapVars, env>>

\* the text before the first space of s, and the text after it
RECURSIVE BeforeSpace(_)
BeforeSpace(s) ==
    IF s = <<>> \/ Head(s) = " " THEN <<>> ELSE <<Head(s)>> \o BeforeSpace(Tail(s))

AfterSpace(s) == SubSeq(s, Len(BeforeSpace(s)) + 2, Len(s))

\* v is num / den rounded to at most dm places: v has at most dm decimals
\* and is within half a unit of the last place of num / den
RoundedTo(v, num, den, dm) ==
    /\ v # NaN
    /\ ~v.neg
    /\ v.scale <= dm
    /\ LET d == 2 * (v.mant * 10^(dm - v.scale) * den - num * 10^dm)
       IN  d <= den /\ 0 - d <= den

\* C20: bytes(0) = '0 Bytes'; for every integer n >= 1, bytes(n) is
\* n / 1024^i, rounded to at most `decimals` places (2 by default), then a
\* space and the i-th unit of Bytes, KB, MB, GB, TB, PB, EB, ZB, YB, where
\* i = floor(log_1024 n); bytes(1048576) = '1 MB'.
C20_Bytes ==
    (op = "bytes" /\ pc = "returned")
        => LET n == args[1]
               places == Max(Parameter(args, 2, DefaultDecimals), 0)
           IN  /\ n = Bytes(0, 0) => ret = <<"0", " ", "B", "y", "t", "e", "s">>
               /\ n.m >= 1
                   => \E u \in DOMAIN sizes :
                         /\ u - 1 >= n.e
                         /\ 1024^(u - 1 - n.e) <= n.m
                         /\ n.m < 1024^(u - n.e)
                         /\ AfterSpace(ret) = sizes[u]
                         /\ RoundedTo(ToNumber(BeforeSpace(ret)), n.m,
                                      1024^(u - 1 - n.e), places)
               /\ args = <<Bytes(1048576, 0)>> => ret = <<"1", " ", "M", "B">>

InitNumber == InitColor \/ InitBytes

NextNumber == RgbToHex \/ HexToRgb \/ BytesCall

SpecNumber == InitNumber /\ [][NextNumber]_vars

(***************************************************************************)
(* Validation: isEmail.                                                    *)
(***************************************************************************)
\* the class [^\s@]
NotSpaceOrAt(c) == ~IsSpace(c) /\ c # "@"

\* text[from..to] matches [^\s@]+
MatchesPart(text, from, to) ==
    /\ from <= to
    /\ \A p \in from..to : NotSpaceOrAt(text[p])

\* /^[^\s@]+@[^\s@]+\.[^\s@]+$/ with an empty last part allowed
IsEmailDotLast(email) ==
    \E at \in 1..Len(email), dot \in 1..Len(email) :
        /\ at < dot
        /\ email[at] = "@" /\ email[dot] = "."
        /\ MatchesPart(email, 1, at - 1)
        /\ MatchesPart(email, at + 1, dot - 1)
        /\ \A p \in (dot + 1)..Len(email) : NotSpaceOrAt(email[p])

\* /^[^\s@]+@[^\s@]+\.[^\s@]+$/.test(email)
isEmail(email) ==
    \E at \in 1..Len(email), dot \in 1..Len(email) :
        /\ at < dot
        /\ email[at] = "@" /\ email[dot] = "."
        /\ MatchesPart(email, 1, at - 1)
        /\ MatchesPart(email, at + 1, dot - 1)
        /\ MatchesPart(email, dot + 1, Len(email))

MaxEmailLen == 5

EmailAlphabet == {"a", "@", ".", " "}

TestAtExampleCom ==
    <<"t", "e", "s", "t", "@", "e", "x", "a", "m", "p", "l", "e", ".", "c", "o", "m">>

InvalidEmail ==
    <<"i", "n", "v", "a", "l", "i", "d", "-", "e", "m", "a", "i", "l">>

IsEmail ==
    /\ pc = "ready" /\ op = "isEmail"
    /\ ret' = isEmail(args[1])
    /\ pc' = "returned"
    /\ UNCHANGED <<op, args>>
    /\ UNCHANGED <<cliVars, loadVars, chunkVars, heapVars, env>>

\* the positions of c in text
PositionsOf(text, c) == {p \in 1..Len(text) : text[p] = c}

\* C21: isEmail(s) is true exactly when s is a non-empty local part, a
\* single '@' and a domain part containing a '.' with at least one
\* character on each side of it, with no white space and no further '@' in
\* s; isEmail('test@example.com') is true, isEmail('invalid-email') false.
C21_IsEmail ==
    (op = "isEmail" /\ pc = "returned")
        => LET s == args[1]
               ats == PositionsOf(s, "@")
               at == CHOOSE p \in ats : TRUE
               domain == SubSeq(s, at + 1, Len(s))
           IN  /\ ret = (/\ Cardinality(ats) = 1
                         /\ \A p \in 1..Len(s) : ~IsSpace(s[p])
                         /\ at > 1
                         /\ \E d \in PositionsOf(domain, ".") :
                               1 < d /\ d < Len(domain))
               /\ s = TestAtExampleCom => ret = TRUE
               /\ s = InvalidEmail => ret = FALSE

\* an address with a dot inside its domain has been accepted
C21_Witness ==
    /\ op = "isEmail" /\ pc = "returned"
    /\ args = <<<<"a", "@", "a", ".", "a">>>>
    /\ ret = TRUE

(***************************************************************************)
(* URLs: getQueryParams.                                                   *)
(***************************************************************************)
\* the characters with the codes 32..95
Ascii ==
    <<" ", "!", "\"", "#", "$", "%", "&", "'", "(", ")", "*", "+", ",", "-", ".", "/",
      "0", "1", "2", "3", "4", "5", "6", "7", "8", "9", ":", ";", "<", "=", ">", "?",
      "@", "A", "B", "C", "D", "E", "F", "G", "H", "I", "J", "K", "L", "M", "N", "O",
      "P", "Q", "R", "S", "T", "U", "V", "W", "X", "Y", "Z", "[", "\\", "]", "^", "_">>

URIError == [t |-> "URIError"]

\* decodeURIComponent(text) from position p on, after the decoded text acc:
\* %XY becomes the character with the code 0xXY and a % without two
\* hexadecimal digits after it throws; the texts decoded here hold no
\* escape of a code outside 32..95
RECURSIVE DecodeFrom(_, _, _)
DecodeFrom(text, p, acc) ==
    IF p > Len(text) THEN [t |-> "string", s |-> acc]
    ELSE IF text[p] # "%" THEN DecodeFrom(text, p + 1, Append(acc, text[p]))
    ELSE IF p + 2 > Len(text) \/ ~IsHexDigit(text[p + 1]) \/ ~IsHexDigit(text[p + 2])
    THEN URIError
    ELSE LET code == 16 * HexDigitVal(text[p + 1]) + HexDigitVal(text[p + 2])
         IN  IF code - 31 \in DOMAIN Ascii
             THEN DecodeFrom(text, p + 3, Append(acc, Ascii[code - 31]))
             ELSE URIError

decodeURIComponent(text) == DecodeFrom(text, 1, <<>>)

\* text.includes(c)
Includes(text, c) == \E p \in 1..Len(text) : text[p] = c

\* params[key] = value
Assign(params, key, value) == (key :> value) @@ params

Params(params) == [t |-> "obj", params |-> params]

\* the loop over pairs from pairs[n] on
RECURSIVE QueryPairs(_, _, _)
QueryPairs(pairs, n, params) ==
    IF n > Len(pairs) THEN Params(params)
    ELSE LET pieces == Split(pairs[n], <<"=">>)
             key == pieces[1]
             value == IF Len(pieces) >= 2 THEN pieces[2] ELSE <<>>
         IN  IF key = <<>> THEN QueryPairs(pairs, n + 1, params)
             ELSE LET k == decodeURIComponent(key)
                      v == IF value # <<>> THEN decodeURIComponent(value)
                                           ELSE [t |-> "string", s |-> <<>>]
                  IN  IF k = URIError \/ v = URIError THEN URIError
                      ELSE QueryPairs(pairs, n + 1, Assign(params, k.s, v.s))

getQueryParams(url) ==
    LET queryString == IF Includes(url, "?") THEN Split(url, <<"?">>)[2] ELSE url
    IN  IF queryString # <<>>
        THEN QueryPairs(Split(queryString, <<"&">>), 1, <<>>)
        ELSE Params(<<>>)

\* the pieces a query string is put together from
QueryTokens ==
    {<<"a">>, <<"b">>, <<"=">>, <<"&">>, <<"?">>, <<"%", "2", "0">>, <<"%">>}

MaxQueryTokens == 3

RECURSIVE JoinTokens(_)
JoinTokens(tokens) ==
    IF tokens = <<>> THEN <<>> ELSE Head(tokens) \o JoinTokens(Tail(tokens))

ExampleComPath ==
    <<"h", "t", "t", "p", "s", ":", "/", "/", "e", "x", "a", "m", "p", "l", "e",
      ".", "c", "o", "m", "/", "p", "a", "t", "h">>

ApiExampleUsers ==
    <<"h", "t", "t", "p", "s", ":", "/", "/", "a", "p", "i", ".", "e", "x", "a",
      "m", "p", "l", "e", ".", "c", "o", "m", "/", "u", "s", "e", "r", "s", "?",
      "p", "a", "g", "e", "=", "1", "&", "l", "i", "m", "i", "t", "=", "1", "0">>

\* query strings alone and after a full URL, and the URL of the README
Urls ==
    {prefix \o JoinTokens(tokens) :
        prefix \in {<<>>, ExampleComPath},
        tokens \in SeqsUpTo(QueryTokens, MaxQueryTokens)}
        \cup {ApiExampleUsers}

InitValidate ==
    /\ pc = "ready"
    /\ \/ /\ op = "isEmail"
          /\ args \in {<<s>> : s \in SeqsUpTo(EmailAlphabet, MaxEmailLen)
                                      \cup {TestAtExampleCom, InvalidEmail}}
       \/ /\ op = "getQueryParams"
          /\ args \in {<<url>> : url \in Urls}
    /\ ret = None
    /\ CliIdle /\ LoadIdle /\ ChunkIdle /\ HeapIdle /\ EnvIdle

GetQueryParams ==
    /\ pc = "ready" /\ op = "getQueryParams"
    /\ ret' = getQueryParams(args[1])
    /\ pc' = "returned"
    /\ UNCHANGED <<op, args>>
    /\ UNCHANGED <<cliVars, loadVars, chunkVars, heapVars, env>>

NextValidate == IsEmail \/ GetQueryParams

SpecValidate == InitValidate /\ [][NextValidate]_vars

\* a full URL: it starts with https://
IsFullUrl(url) == StartsAt(url, 1, <<"h", "t", "t", "p", "s", ":", "/", "/">>)

\* the query string of url: the part after its '?'; a text that is no full
\* URL and has no '?' is a query string itself
QueryOf(url) ==
    IF Includes(url, "?")
    THEN SubSeq(url, (CHOOSE p \in PositionsOf(url, "?") :
                        \A q \in PositionsOf(url, "?") : p <= q) + 1, Len(url))
    ELSE IF IsFullUrl(url) THEN <<>> ELSE url

\* the key=value pairs of a query string that have a key
PairsOf(query) ==
    LET pairs == Split(query, <<"&">>)
    IN  {Split(pairs[n], <<"=">>) : n \in 1..Len(pairs)} \ {pair \in
            {Split(pairs[n], <<"=">>) : n \in 1..Len(pairs)} : pair[1] = <<>>}

\* C26: getQueryParams(url) returns exactly the URL-decoded key/value pairs
\* of the query string of url, the part after its '?'; for a full URL
\* without a '?' it returns an empty mapping.  The pairs are compared for
\* the URLs with at most one '?', one '=' in a pair at most, and escapes
\* that can be decoded.
C26_QueryParams ==
    (op = "getQueryParams" /\ pc = "returned")
        => LET url == args[1]
               pairs == PairsOf(QueryOf(url))
               Value(pair) == IF Len(pair) >= 2 THEN pair[2] ELSE <<>>
           IN  /\ (IsFullUrl(url) /\ ~Includes(url, "?")) => ret = Params(<<>>)
               /\ (/\ Cardinality(PositionsOf(url, "?")) <= 1
                   /\ \A pair \in pairs :
                         /\ Len(pair) <= 2
                         /\ decodeURIComponent(pair[1]) # URIError
                         /\ decodeURIComponent(Value(pair)) # URIError)
                   => /\ ret.t = "obj"
                      /\ DOMAIN ret.params
                            = {decodeURIComponent(pair[1]).s : pair \in pairs}
                      /\ \A key \in DOMAIN ret.params :
                            \E pair \in pairs :
                               /\ decodeURIComponent(pair[1]).s = key
                               /\ decodeURIComponent(Value(pair)).s = ret.params[key]
               /\ url = ApiExampleUsers
                   => ret = Params((<<"p", "a", "g", "e">> :> <<"1">>)
                                   @@ (<<"l", "i", "m", "i", "t">> :> <<"1", "0">>))

(***************************************************************************)
(* flatten(o, sep) followed by unflatten(., sep), with a separator given.  *)
(***************************************************************************)
Separators == {<<".">>, <<"/">>, <<"_", "_">>}

InitSeparator ==
    /\ pc = "ready"
    /\ op = "flatten"
    /\ args \in Mappings(ObjectKeys, MaxNodes - 1) \X Separators
    /\ ret = None
    /\ CliIdle /\ LoadIdle /\ ChunkIdle /\ HeapIdle /\ EnvIdle

FlattenSeparator ==
    /\ pc = "ready" /\ op = "flatten" /\ Len(args) = 2
    /\ ret' = flatten(args[1], args[2])
    /\ pc' = "flattened"
    /\ UNCHANGED <<op, args>>
    /\ UNCHANGED <<cliVars, loadVars, chunkVars, heapVars, env>>

UnflattenSeparator ==
    /\ pc = "flattened" /\ Len(args) = 2
    /\ ret' = unflatten(ret, args[2])
    /\ pc' = "unflattened"
    /\ UNCHANGED <<op, args>>
    /\ UNCHANGED <<cliVars, loadVars, chunkVars, heapVars, env>>

NextSeparator == FlattenSeparator \/ UnflattenSeparator

SpecSeparator == InitSeparator /\ [][NextSeparator]_vars

\* the keys of ObjectKeys in which no character of sep occurs
KeysWithout(sep) ==
    {k \in ObjectKeys : \A p \in 1..Len(k), q \in 1..Len(sep) : k[p] # sep[q]}

\* C22: for every mapping o and every separator sep whose characters do not
\* occur in the keys of o, unflatten(flatten(o, sep), sep) is deeply equal
\* to o.
C22_SeparatorRoundTrip ==
    (/\ pc = "unflattened"
     /\ Len(args) = 2
     /\ AllKeys(args[1], 0, KeysWithout(args[2])))
    => DeepEqual(ret, args[1])

(***************************************************************************)
(* Dates.  A Date is its local time: the number of its day, counted from   *)
(* 1 January 1970, and the milliseconds since the midnight of that day.    *)
(* Local time is at a fixed offset from UTC.  The operators below are the  *)
(* ones ECMAScript defines the methods of Date with.                       *)
(***************************************************************************)
\* 24 * 60 * 60 * 1000
MsPerDay == 86400000

Date(day, ms) == [day |-> day, ms |-> ms]

\* the floor of a / b, b > 0
FloorDiv(a, b) == IF a >= 0 THEN a \div b ELSE 0 - ((b - 1 - a) \div b)

\* the ceiling of a / b, b > 0
CeilDiv(a, b) == 0 - FloorDiv(0 - a, b)

\* the day on which year y begins
DayFromYear(y) ==
    365 * (y - 1970) + FloorDiv(y - 1969, 4) - FloorDiv(y - 1901, 100)
        + FloorDiv(y - 1601, 400)

InLeapYear(y) == y % 4 = 0 /\ (y % 100 # 0 \/ y % 400 = 0)

\* the days of the months of year y
MonthLengths(y) ==
    <<31, IF InLeapYear(y) THEN 29 ELSE 28, 31, 30, 31, 30, 31, 31, 30, 31, 30, 31>>

\* the days of year y before its month m, m in 0..11
RECURSIVE DaysBeforeMonth(_, _)
DaysBeforeMonth(y, m) ==
    IF m = 0 THEN 0 ELSE DaysBeforeMonth(y, m - 1) + MonthLengths(y)[m]

\* getFullYear()
YearFromDay(day) ==
    CHOOSE y \in (1969 + FloorDiv(day, 366))..(1971 + FloorDiv(day, 365)) :
        DayFromYear(y) <= day /\ day < DayFromYear(y + 1)

\* getMonth()
MonthFromDay(day) ==
    LET y == YearFromDay(day)
    IN  CHOOSE m \in 0..11 :
            /\ DayFromYear(y) + DaysBeforeMonth(y, m) <= day
            /\ day < DayFromYear(y) + DaysBeforeMonth(y, m) + MonthLengths(y)[m + 1]

\* getDate()
DateFromDay(day) ==
    day - DayFromYear(YearFromDay(day))
        - DaysBeforeMonth(YearFromDay(day), MonthFromDay(day)) + 1

\* getDay(): 1 January 1970 was a Thursday
WeekDay(day) == (day + 4) % 7

\* MakeDay(year, month, date): a month outside 0..11 carries into the year,
\* and a date outside the month carries into the days after or before it
MakeDay(year, month, date) ==
    LET ym == year + FloorDiv(month, 12)
        mn == month - 12 * FloorDiv(month, 12)
    IN  DayFromYear(ym) + DaysBeforeMonth(ym, mn) + date - 1

\* date.setMonth(month)
setMonth(date, month) ==
    Date(MakeDay(YearFromDay(date.day), month, DateFromDay(date.day)), date.ms)

\* addMonths(date, months)
addMonths(date, months) == setMonth(date, MonthFromDay(date.day) + months)

\* weekOfYear(date)
weekOfYear(date) ==
    LET start == Date(MakeDay(YearFromDay(date.day), 0, 1), 0)
        days == (date.day - start.day) + FloorDiv(date.ms - start.ms, MsPerDay)
    IN  CeilDiv(days + WeekDay(start.day) + 1, 7)

intervals ==
    <<[label |-> <<"y", "e", "a", "r">>, seconds |-> 31536000],
      [label |-> <<"m", "o", "n", "t", "h">>, seconds |-> 2592000],
      [label |-> <<"w", "e", "e", "k">>, seconds |-> 604800],
      [label |-> <<"d", "a", "y">>, seconds |-> 86400],
      [label |-> <<"h", "o", "u", "r">>, seconds |-> 3600],
      [label |-> <<"m", "i", "n", "u", "t", "e">>, seconds |-> 60],
      [label |-> <<"s", "e", "c", "o", "n", "d">>, seconds |-> 1]>>

JustNow == <<"j", "u", "s", "t", " ", "n", "o", "w">>

\* `${count} ${label}${plural ? 's' : ''} ago`
AgoText(count, label, plural) ==
    IndexKey(count) \o <<" ">> \o label \o (IF plural THEN <<"s">> ELSE <<>>)
        \o <<" ", "a", "g", "o">>

\* Math.floor((now - past) / 1000)
DiffInSeconds(now, past) ==
    (now.day - past.day) * (MsPerDay \div 1000) + FloorDiv(now.ms - past.ms, 1000)

\* the loop over intervals from the n-th on
RECURSIVE AgoFrom(_, _)
AgoFrom(diffInSeconds, n) ==
    IF n > Len(intervals) THEN JustNow
    ELSE LET count == FloorDiv(diffInSeconds, intervals[n].seconds)
         IN  IF count >= 1 THEN AgoText(count, intervals[n].label, count # 1)
             ELSE AgoFrom(diffInSeconds, n + 1)

\* a timeAgo that rounds the count to the nearest integer
TimeAgoRounded(now, past) ==
    LET RoundFrom[n \in 1..(Len(intervals) + 1)] ==
            IF n > Len(intervals) THEN JustNow
            ELSE LET count == FloorDiv(2 * DiffInSeconds(now, past) + intervals[n].seconds,
                                       2 * intervals[n].seconds)
                 IN  IF count >= 1 THEN AgoText(count, intervals[n].label, count # 1)
                     ELSE RoundFrom[n + 1]
    IN  RoundFrom[1]

\* timeAgo(date) called at the time now
timeAgo(now, past) == AgoFrom(DiffInSeconds(now, past), 1)

(***************************************************************************)
(* The dates the date functions are applied to.                            *)
(***************************************************************************)
\* 28 years in a row: every weekday of 1 January, in leap years and others
Years == 2000..2027

LastMs == MsPerDay - 1

\* 12:00:00.500
Noon == 12 * 3600 * 1000 + 500

WeekDates ==
    {Date(day, ms) : day \in UNION {DayFromYear(y)..(DayFromYear(y + 1) - 1) : y \in Years},
                     ms \in {0, LastMs}}

\* days 1, 15 and 28 to the last day of every month of 2023 and 2024
MonthDates ==
    {Date(MakeDay(y, m, d), ms) :
        y \in {2023, 2024}, m \in 0..11, d \in {1, 15, 28, 29, 30, 31}, ms \in {0, Noon}}
        \ {date \in {Date(MakeDay(y, m, d), ms) :
                        y \in {2023, 2024}, m \in 0..11, d \in {29, 30, 31}, ms \in {0, Noon}} :
                DateFromDay(date.day) < 29}

MonthCounts == {0 - 25, 0 - 13, 0 - 12, 0 - 11, 0 - 2, 0 - 1, 0, 1, 2, 3, 6, 11, 12, 13, 25}

\* the time at which timeAgo is called: 15 January 2024, 12:00:00.500
Now == Date(MakeDay(2024, 0, 15), Noon)

MaxLag == 130

\* the seconds a date lies before Now (after it, when negative): around
\* every unit and its double
Lags ==
    ((0 - 2)..MaxLag)
        \cup {0 - 86400, 3599, 3600, 3601, 7199, 7200, 86399, 86400, 86401, 172800,
              604799, 604800, 1209600, 2591999, 2592000, 5184000, 31535999,
              31536000, 63072000, 94608000}

\* the date lying lag seconds and ms milliseconds before now
DateBefore(now, lag, ms) ==
    LET secs == now.day * (MsPerDay \div 1000) + now.ms \div 1000 - lag
        day == FloorDiv(secs, MsPerDay \div 1000)
    IN  Date(day, (secs - day * (MsPerDay \div 1000)) * 1000 + (now.ms % 1000) - ms)

InitDate ==
    /\ pc = "ready"
    /\ \/ /\ op = "weekOfYear"
          /\ args \in {<<d>> : d \in WeekDates}
          /\ before = <<>>
          /\ env = <<>>
       \/ /\ op = "addMonths"
          /\ args \in MonthDates \X MonthCounts
          /\ before = <<>>
          /\ env = <<>>
       \/ /\ op = "timeAgo"
          /\ env = Now
          /\ \E lag \in Lags, ms \in {0, 400} :
                /\ args = <<DateBefore(Now, lag, ms)>>
                /\ before = <<lag>>
    /\ heap = <<>>
    /\ ret = None
    /\ CliIdle /\ LoadIdle /\ ChunkIdle

WeekOfYear ==
    /\ pc = "ready" /\ op = "weekOfYear"
    /\ ret' = weekOfYear(args[1])
    /\ pc' = "returned"
    /\ UNCHANGED <<op, args>>
    /\ UNCHANGED <<cliVars, loadVars, chunkVars, heapVars, env>>

AddMonths ==
    /\ pc = "ready" /\ op = "addMonths"
    /\ ret' = addMonths(args[1], args[2])
    /\ pc' = "returned"
    /\ UNCHANGED <<op, args>>
    /\ UNCHANGED <<cliVars, loadVars, chunkVars, heapVars, env>>

\* const now = new Date() is the time env of the call
TimeAgo ==
    /\ pc = "ready" /\ op = "timeAgo"
    /\ ret' = timeAgo(env, args[1])
    /\ pc' = "returned"
    /\ UNCHANGED <<op, args>>
    /\ UNCHANGED <<cliVars, loadVars, chunkVars, heapVars, env>>

NextDate == WeekOfYear \/ AddMonths \/ TimeAgo

SpecDate == InitDate /\ [][NextDate]_vars

\* C24: for every date of every year, weekOfYear(date) is an integer in the
\* range 1..53.
C24_WeekOfYearRange ==
    (op = "weekOfYear" /\ pc = "returned") => ret \in 1..53

\* C25: addMonths(d, n) is the date n calendar months from d: its month is
\* (month(d) + n) mod 12 with the year carried accordingly, and its day of
\* the month and its time of day are those of d.
C25_AddMonths ==
    (op = "addMonths" /\ pc = "returned")
        => LET d == args[1]
               months == MonthFromDay(d.day) + args[2]
           IN  /\ MonthFromDay(ret.day) = months - 12 * FloorDiv(months, 12)
               /\ YearFromDay(ret.day) = YearFromDay(d.day) + FloorDiv(months, 12)
               /\ DateFromDay(ret.day) = DateFromDay(d.day)
               /\ ret.ms = d.ms

\* the units of timeAgo that do not exceed s seconds
UnitsWithin(s) == {n \in 1..Len(intervals) : intervals[n].seconds <= s}

\* C27: for a date s whole seconds before the current time, timeAgo returns
\* 'just now' when s < 1 (every date in the future included), and otherwise
\* '<c> <unit> ago' with the largest unit of year, month, week, day, hour,
\* minute, second that does not exceed s, c = floor(s / unit), and a plural
\* 's' exactly when c is not 1.
C27_TimeAgo ==
    (op = "timeAgo" /\ pc = "returned")
        => LET s == before[1]
               n == CHOOSE u \in UnitsWithin(s) :
                        \A v \in UnitsWithin(s) : intervals[v].seconds <= intervals[u].seconds
               c == s \div intervals[n].seconds
           IN  IF s < 1 THEN ret = JustNow
               ELSE ret = IndexKey(c) \o <<" ">> \o intervals[n].label
                            \o (IF c = 1 THEN <<>> ELSE <<"s">>) \o <<" ", "a", "g", "o">>

\* a date 7199 seconds and 400 ms back has given '1 hour ago'
C27_Witness ==
    /\ op = "timeAgo" /\ pc = "returned"
    /\ before = <<7199>>
    /\ args[1].ms = Now.ms - 7199000 - 400
    /\ ret = <<"1", " ", "h", "o", "u", "r", " ", "a", "g", "o">>


====
